---- MODULE Spec2Model ----
(***************************************************************************)
(* A model of san-cli's Service class                                      *)
(* (src/packages/san-cli/lib/Service.js): the plugin list and its          *)
(* initialization, the command / flag / pre-handler registries and the     *)
(* dispatch of a command, the loading of the project options, and the      *)
(* webpack configuration getters.                                          *)
(*                                                                         *)
(* JavaScript strings that the code takes apart with regular expressions   *)
(* are sequences of one-character strings.  A JavaScript Map or plain      *)
(* object is a function whose DOMAIN is its set of keys; a missing key is  *)
(* a key outside the DOMAIN.                                               *)
(***************************************************************************)
EXTENDS Integers, Sequences, FiniteSets, TLC

VARIABLES
    \* ---- constructor fields (Service.js 34-55)
    plugins,                    \* this.plugins
    initialized,                \* this.initialized
    mode,                       \* this.mode
    initProjectOptions,         \* this._initProjectOptions
    projectOptions,             \* this.projectOptions
    defaultConfig,              \* the defaults of ./options (line 26)
    configFile,                 \* the project's config file and the object it exports
    webpackChainFns,            \* this.webpackChainFns
    webpackRawConfigFns,        \* this.webpackRawConfigFns
    registeredCommands,         \* this.registeredCommands
    registeredCommandFlags,     \* this.registeredCommandFlags
    registeredCommandHandlers,  \* this.registeredCommandHandlers
    \* ---- control state of a running init()
    pc,                         \* "idle" or "init": an init() call is on the stack
    initIdx,                    \* forEach index of the plugin being applied
    initLen,                    \* forEach range, fixed when the loop starts
    \* ---- observations
    initDone,                   \* some init() call ran to its return at line 193
    applyLog,                   \* indexes of this.plugins whose apply was invoked
    addCalls,                   \* calls of addPlugin made from outside a plugin
    flagLog,                    \* per command key, every registerCommandFlag call so far
    commandLog,                 \* per command key, the descriptor registered last
                                \* and whether it replaced an earlier one
    last,                       \* the last call made on the service and its outcome
    \* ---- the rest of the service and of its process
    ctorArgs,                   \* the constructor's plugins and useBuiltInPlugin
    mergeRule,                  \* what the installed webpack-merge does with two
                                \* arrays and with two functions on one key
    devServerMiddlewares,       \* this.devServerMiddlewares
    processEnv,                 \* process.env
    envFiles,                   \* the .env[.mode] file of cwd and its .local file
    run,                        \* the run() call, and where it is
    jobs,                       \* the promise jobs of loadProjectOptions calls
                                \* that wait for the stack to empty, in order
    handed                      \* devServer.before of the configuration that
                                \* getWebpackConfig returned last

vars == <<plugins, initialized, mode, initProjectOptions, projectOptions,
          defaultConfig, configFile,
          webpackChainFns, webpackRawConfigFns, registeredCommands,
          registeredCommandFlags, registeredCommandHandlers,
          pc, initIdx, initLen, initDone, applyLog, addCalls, flagLog,
          commandLog, last, ctorArgs, mergeRule, devServerMiddlewares,
          processEnv,
          envFiles, run, jobs, handed>>

pluginVars == <<plugins, initialized, mode, webpackChainFns, webpackRawConfigFns,
                pc, initIdx, initLen, initDone, applyLog, addCalls>>
optionVars == <<initProjectOptions, projectOptions, defaultConfig, configFile>>
commandVars == <<registeredCommands, registeredCommandFlags,
                 registeredCommandHandlers, flagLog, commandLog>>
envVars == <<processEnv, envFiles>>
serverVars == <<devServerMiddlewares, handed>>
restVars == <<ctorArgs, mergeRule, serverVars, envVars, run, jobs>>

-----------------------------------------------------------------------------
(* JavaScript values *)

\* new Map() / {} : no key
EmptyMap == [k \in {} |-> k]

\* Map.prototype.set(k, v), obj[k] = v
MapSet(m, k, v) == [x \in (DOMAIN m) \cup {k} |-> IF x = k THEN v ELSE m[x]]

\* Object.assign(target, source): the keys of both, the source's value on a
\* key of both
ObjectAssign(target, source) ==
    [k \in (DOMAIN target) \cup (DOMAIN source) |->
        IF k \in DOMAIN source THEN source[k] ELSE target[k]]

\* Array.prototype.push
Push(arr, x) == Append(arr, x)

MapGetOr(m, k, default) == IF k \in DOMAIN m THEN m[k] ELSE default

Min(S) == CHOOSE x \in S : \A y \in S : x <= y

Max(S) == CHOOSE x \in S : \A y \in S : x >= y

-----------------------------------------------------------------------------
(* getCommandName (Service.js 582-587) *)

\* \s of the regular expressions, over the characters the model uses
IsSpace(c) == c = " "

RECURSIVE DropSpaces(_)
DropSpaces(s) ==
    IF s # <<>> /\ IsSpace(Head(s)) THEN DropSpaces(Tail(s)) ELSE s

\* .replace(/\s{2,}/g, ' '): a run of two or more spaces becomes one space
RECURSIVE CollapseSpaces(_)
CollapseSpaces(s) ==
    IF s = <<>> THEN <<>>
    ELSE IF Len(s) >= 2 /\ IsSpace(s[1]) /\ IsSpace(s[2])
         THEN <<" ">> \o CollapseSpaces(DropSpaces(s))
         ELSE <<Head(s)>> \o CollapseSpaces(Tail(s))

\* [^[]*] (open = "[", close = "]") and [^<]*> matched at the start of rest:
\* some close has no open before it
ClosesBefore(rest, open, close) ==
    \E j \in 1..Len(rest) :
        rest[j] = close /\ \A i \in 1..(j - 1) : rest[i] # open

\* the lookahead (?![^[]*]|[^<]*>) fails here
InsideBrackets(rest) ==
    ClosesBefore(rest, "[", "]") \/ ClosesBefore(rest, "<", ">")

\* /\s+(?![^[]*]|[^<]*>)/ matches at index i
SeparatorAt(s, i) ==
    \E n \in 1..(Len(s) - i + 1) :
        /\ \A k \in i..(i + n - 1) : IsSpace(s[k])
        /\ ~InsideBrackets(SubSeq(s, i + n, Len(s)))

\* .split(separator)[0]
FirstPiece(s) ==
    LET at == {i \in 1..Len(s) : SeparatorAt(s, i)}
    IN  IF at = {} THEN s ELSE SubSeq(s, 1, Min(at) - 1)

RECURSIVE DropTrailingSpaces(_)
DropTrailingSpaces(s) ==
    IF s # <<>> /\ IsSpace(s[Len(s)])
    THEN DropTrailingSpaces(SubSeq(s, 1, Len(s) - 1)) ELSE s

\* String.prototype.trim
Trim(s) == DropTrailingSpaces(DropSpaces(s))

\* command.replace(...).split(...)[0].trim()
CommandName(command) == Trim(FirstPiece(CollapseSpaces(command)))

-----------------------------------------------------------------------------
(* Project options: loadProjectOptions and normalizeConfig                 *)
(* (Service.js 307-383, 567-580)                                           *)

\* An options or configuration object is a function from its keys to their
\* values.  The kind of a value goes by its key, at every depth: a plain
\* object for the keys of NestedKeys, an array of strings for the keys of
\* ArrayKeys, a function for `before`, a string, number or boolean for
\* every other key.
NestedKeys == {"devServer", "proxy"}

ArrayKeys == {"plugins"}

\* lodash.defaultsdeep on two arrays of strings: index by index, the element
\* of object where it has one, else the element of source
DefaultsDeepArray(object, source) ==
    [i \in 1..Max({Len(object), Len(source)}) |->
        IF i <= Len(object) THEN object[i] ELSE source[i]]

\* lodash.defaultsdeep(object, source): object, with the keys it lacks taken
\* from source; where both have the key, two objects are merged the same
\* way at every depth, two arrays index by index, and any other value of
\* object is kept
RECURSIVE DefaultsDeep(_, _)
DefaultsDeep(object, source) ==
    [k \in (DOMAIN object) \cup (DOMAIN source) |->
        IF k \notin DOMAIN object THEN source[k]
        ELSE IF k \notin DOMAIN source THEN object[k]
        ELSE IF k \in NestedKeys THEN DefaultsDeep(object[k], source[k])
        ELSE IF k \in ArrayKeys THEN DefaultsDeepArray(object[k], source[k])
        ELSE object[k]]

StartsWith(s, prefix) ==
    Len(s) >= Len(prefix) /\ SubSeq(s, 1, Len(prefix)) = prefix

\* /^https?:/.test(val)
IsHttp(val) ==
    \/ StartsWith(val, <<"h", "t", "t", "p", ":">>)
    \/ StartsWith(val, <<"h", "t", "t", "p", "s", ":">>)

\* lines 572-580, for a string val
ensureSlashAtEndOnly(val) ==
    IF val # <<>> /\ val[Len(val)] # "/" THEN val \o <<"/">> ELSE val

ensureSlash(val) ==
    LET \* val.replace(/^([^/.])/, '/$1') unless val is an http(s) URL
        led == IF ~IsHttp(val) /\ val # <<>> /\ val[1] \notin {"/", "."}
               THEN <<"/">> \o val ELSE val
    IN  \* val.replace(/([^/])$/, '$1/')
        IF led # <<>> /\ led[Len(led)] # "/" THEN led \o <<"/">> ELSE led

\* lines 567-571, for a string val: val.replace(/\/$/g, '')
removeSlash(val) ==
    IF val # <<>> /\ val[Len(val)] = "/" THEN SubSeq(val, 1, Len(val) - 1) ELSE val

\* line 364: config.publicPath.replace(/^\.\//, '')
StripDotSlash(val) ==
    IF StartsWith(val, <<".", "/">>) THEN SubSeq(val, 3, Len(val)) ELSE val

\* lines 360-383, for a config without pages
normalizeConfig(config) ==
    [k \in DOMAIN config |->
        IF k = "publicPath" THEN StripDotSlash(ensureSlash(config[k]))
        ELSE IF k = "outputDir" THEN removeSlash(config[k])
        ELSE config[k]]

\* no config file: neither the configFile argument nor san.config.js /
\* .san.config.js exists
NoFile == [exists |-> FALSE, valid |-> TRUE, config |-> EmptyMap]

\* the inputs of a loadProjectOptions call, kept with the call's record
NoGiven == [init |-> EmptyMap, file |-> NoFile]

\* line 354: config = defaultsDeep(result.config, config)
MergeFileConfig(fileConfig, config) == DefaultsDeep(fileConfig, config)

-----------------------------------------------------------------------------
(* Plugins: resolvePlugins and _loadPlugin (Service.js 105-173) *)

\* line 28
BUILDIN_PLUGINS == <<"base", "css", "app", "optimization", "babel">>

\* An element of this.plugins.  _loadPlugin returns undefined for a plugin
\* it could not load, and the caller stores that undefined: loaded = FALSE.
\* kind is what the plugin's apply does when called; options is "given" for
\* the pair [plugin, pluginOptions].
Undefined == [loaded |-> FALSE, id |-> "", kind |-> "undefined", options |-> "none"]

Plugin(id, kind, options) ==
    [loaded |-> TRUE, id |-> id, kind |-> kind, options |-> options]

\* what the apply of a plugin does with its api:
\*   "chain"      api.chainWebpack(fn): appends a chain mutator
\*   "addPlugin"  api.addPlugin(ChildPlugin)
\*   "getConfig"  api.getWebpackConfig()
\*   "middleware" api.addDevServerMiddleware(fn), fn named by the plugin's id
\*   a raw mutator's name: api.configWebpack(that mutator)
ApplyKinds == {"chain", "addPlugin", "getConfig", "middleware",
               "fragA", "fragB", "fnB", "fnNothing"}

\* require(resolvePlugin(p, cwd)) for the module names the model uses:
\* "good" exports {apply}, "named" exports {id: "own-id", apply},
\* "noapply" exports an object without apply, "missing" cannot be resolved
ModuleNames == {"good", "named", "noapply", "missing"}

Require(name) ==
    CASE name = "good" -> [found |-> TRUE, hasApply |-> TRUE, id |-> "", kind |-> "chain"]
      [] name = "named" -> [found |-> TRUE, hasApply |-> TRUE, id |-> "own-id", kind |-> "chain"]
      [] name = "noapply" -> [found |-> TRUE, hasApply |-> FALSE, id |-> "", kind |-> "chain"]
      [] OTHER -> [found |-> FALSE, hasApply |-> FALSE, id |-> "", kind |-> "chain"]

\* A plugin specifier: a module name (form "string") or a plugin object
\* (form "object", with its id, "" when it has none, and whether it has an
\* apply function), alone or in a pair with options.
StringSpecifier(name, options) ==
    [form |-> "string", name |-> name, id |-> "", hasApply |-> FALSE,
     kind |-> "chain", options |-> options]

ObjectSpecifier(id, hasApply, kind, options) ==
    [form |-> "object", name |-> "", id |-> id, hasApply |-> hasApply,
     kind |-> kind, options |-> options]

\* lines 123-173.  A failed require is caught and logged (157-160), an
\* invalid module or object is logged (155, 168): all three fall off the end
\* of the function, which returns undefined.
LoadPlugin(p) ==
    IF p.form = "string"
    THEN LET plugin == Require(p.name)
         IN  IF plugin.found /\ plugin.hasApply
             THEN Plugin(IF plugin.id = "" THEN p.name ELSE plugin.id,
                         plugin.kind, p.options)
             ELSE Undefined
    ELSE IF p.id # "" /\ p.hasApply
         THEN Plugin(p.id, p.kind, p.options)
         ELSE Undefined

RECURSIVE MapLoadPlugin(_)
MapLoadPlugin(specifiers) ==
    IF specifiers = <<>> THEN <<>>
    ELSE <<LoadPlugin(Head(specifiers))>> \o MapLoadPlugin(Tail(specifiers))

\* lines 107-110: the built-in plugin objects, required as they are
BuiltInPlugins ==
    [i \in 1..Len(BUILDIN_PLUGINS) |-> Plugin(BUILDIN_PLUGINS[i], "chain", "none")]

\* lines 105-122; arg.isArray is Array.isArray(plugins)
resolvePluginsUserFirst(arg, useBuiltInPlugin) ==
    LET builtInPlugins == IF useBuiltInPlugin THEN BuiltInPlugins ELSE <<>>
        given == IF arg.isArray THEN arg.items ELSE <<>>
    IN  MapLoadPlugin(given) \o builtInPlugins

resolvePlugins(arg, useBuiltInPlugin) ==
    LET builtInPlugins == IF useBuiltInPlugin THEN BuiltInPlugins ELSE <<>>
        given == IF arg.isArray THEN arg.items ELSE <<>>
    IN  IF Len(given) > 0
        THEN builtInPlugins \o MapLoadPlugin(given)
        ELSE builtInPlugins

-----------------------------------------------------------------------------
(* Inputs of the plugin list *)

\* the plugin a plugin of kind "addPlugin" adds from inside its apply
ChildPlugin == ObjectSpecifier("child", TRUE, "chain", "none")

\* specifiers given to the constructor
CtorSpecifiers ==
    {StringSpecifier("good", "none"), StringSpecifier("named", "given"),
     StringSpecifier("noapply", "none"), StringSpecifier("missing", "none"),
     ObjectSpecifier("adder", TRUE, "addPlugin", "none"),
     ObjectSpecifier("peek", TRUE, "getConfig", "none"),
     ObjectSpecifier("", TRUE, "chain", "none")}

\* specifiers the constructor's plugins array may hold
MaxCtorPlugins == 2

RECURSIVE SeqsUpTo(_, _)
SeqsUpTo(S, n) ==
    IF n = 0 THEN {<<>>}
    ELSE LET shorter == SeqsUpTo(S, n - 1)
         IN  shorter \cup {Append(q, x) : q \in shorter, x \in S}

\* the constructor's plugins argument: an array, or something that is not one
CtorPluginArgs ==
    {[isArray |-> TRUE, items |-> q] : q \in SeqsUpTo(CtorSpecifiers, MaxCtorPlugins)}
        \cup {[isArray |-> FALSE, items |-> <<>>]}

\* specifiers given to addPlugin from outside a plugin (argsert accepts them)
AddPluginInputs ==
    {StringSpecifier("good", "none"), StringSpecifier("missing", "none"),
     ObjectSpecifier("adder", TRUE, "addPlugin", "none")}

\* calls of addPlugin from outside a plugin
MaxAddPlugin == 1

Modes == {"production", "development"}

\* this.projectOptions before run assigns it
\* ref names the object it is: "init" is the object of
\* this._initProjectOptions, "file" the object the config file exports,
\* "own" an object nothing else holds
NoOptions == [set |-> FALSE, config |-> EmptyMap, ref |-> "none"]

\* project options run may assign: with or without the chainWebpack and
\* configWebpack functions
OptionInputs ==
    {EmptyMap, [chainWebpack |-> "projectChain"],
     [chainWebpack |-> "projectChain", configWebpack |-> "projectRaw"]}

-----------------------------------------------------------------------------
(* Inputs of the command registries *)

Serve == <<"s", "e", "r", "v", "e">>
ServeEntry == Serve \o <<" ", " ", "[", "e", " ", "f", "]">>
Build == <<"b", "u", "i", "l", "d">>

\* command strings given to registerCommand
CommandInputs == {ServeEntry}

\* command names given to registerCommandFlag
CommandNameInputs == {Serve, ServeEntry}

\* getCommandName, tabulated over the command strings of the model
CommandNames == [c \in CommandInputs \cup CommandNameInputs |-> CommandName(c)]

getCommandName(command) == CommandNames[command]

\* the keys of the three registries
CommandKeys == {getCommandName(c) : c \in CommandInputs \cup CommandNameInputs}

\* command names given to runCommand: Build is never registered
RunInputs == CommandKeys \cup {Build}

\* a descriptor's builder
BuilderInputs ==
    {EmptyMap, [port |-> "number"], [port |-> "string", open |-> "boolean"]}

\* the flag argument of registerCommandFlag
FlagInputs == {[port |-> "number"], [port |-> "string"], [open |-> "string"]}

\* a command's own handler; "none" is a descriptor without a handler function
HandlerInputs == {"h1", "h2", "none"}

\* pre-handlers, each named after what its call returns
PreHandlers == {"pFalse", "pUndefined", "pTrue"}

\* what a call of a pre-handler returns
PreHandlerReturn(h) ==
    CASE h = "pFalse" -> "false"
      [] h = "pUndefined" -> "undefined"
      [] OTHER -> "true"

\* pre-handlers one command key may collect
MaxHandlers == 2

\* new Service(cwd, {plugins: [], useBuiltInPlugin: false})
NoCtorArgs == [plugins |-> [isArray |-> TRUE, items |-> <<>>],
               useBuiltInPlugin |-> FALSE]

\* a cwd without a .env[.mode] file
NoEnvFiles == [exists |-> FALSE, env |-> EmptyMap,
               local |-> [exists |-> FALSE, env |-> EmptyMap]]

\* no run() call on the stack
NoRun == [pc |-> "idle", cmd |-> <<>>, mode |-> "undefined",
          noProgress |-> FALSE, todo |-> <<>>, log |-> <<>>]

\* A devServer.before hook: a function of the user, named by inner
\* ("undefined" when there is none), or the wrapper of lines 537-546 around it.
Hook(name) == [wrapped |-> FALSE, inner |-> name]

NoHook == Hook("undefined")

\* what getWebpackChainConfig / getWebpackConfig return: the chain mutators
\* and the raw mutators that were applied, in order, the configuration
\* object after the raw mutators (merged) and the one returned (value)
NoConfig == [chain |-> <<>>, raw |-> <<>>, merged |-> EmptyMap, value |-> EmptyMap]

\* the record of a call on the service; every action fills in its own fields
NoCall ==
    [op |-> "none", cmd |-> <<>>, known |-> FALSE, registered |-> FALSE,
     parsed |-> FALSE, calls |-> <<>>, builder |-> EmptyMap, threw |-> FALSE,
     mode |-> "undefined", again |-> FALSE, complete |-> FALSE,
     config |-> NoConfig, given |-> NoGiven, options |-> EmptyMap,
     viaApi |-> FALSE, returned |-> "undefined", env |-> EmptyMap,
     ref |-> "none"]

-----------------------------------------------------------------------------
(* loadEnv (Service.js 57-103) *)

\* An environment is a function from variable names to strings; "" is the
\* empty string.  files is the file findExisting looks for, .env or
\* .env.<mode>, with what dotenv parses from it, and its .local file.

\* lines 85-88: Object.assign(defaultEnv, localEnv); a missing file loads as {}
EnvOfFiles(files) ==
    ObjectAssign(files.env, IF files.local.exists THEN files.local.env ELSE EmptyMap)

\* lines 89-93: a key of envObj is set unless process.env has the key
SetAlways(env, envObj) == ObjectAssign(env, envObj)

SetAbsent(env, envObj) ==
    [k \in (DOMAIN env) \cup (DOMAIN envObj) |->
        IF k \in DOMAIN env THEN env[k] ELSE envObj[k]]

\* line 95
DefaultNodeEnv(m) == IF m = "production" THEN m ELSE "development"

\* line 98: !process.env[k]
IsEmptyEnv(env, k) == k \notin DOMAIN env \/ env[k] = ""

\* lines 97-101
SetNodeEnv(env, m) ==
    [k \in (DOMAIN env) \cup {"NODE_ENV", "BABEL_ENV"} |->
        IF k \in {"NODE_ENV", "BABEL_ENV"} /\ IsEmptyEnv(env, k)
        THEN DefaultNodeEnv(m) ELSE env[k]]

\* process.env after loadEnv(m); m = "undefined" is a call without a mode.
\* Lines 61-65: without the env file nothing is done at all.
LoadedEnv(env, files, m) ==
    IF ~files.exists THEN env
    ELSE LET set == SetAbsent(env, EnvOfFiles(files))
         IN  IF m # "undefined" THEN SetNodeEnv(set, m) ELSE set

loadEnv(m) ==
    /\ pc = "idle"
    /\ processEnv' = LoadedEnv(processEnv, envFiles, m)
    /\ last' = [NoCall EXCEPT !.op = "loadEnv", !.mode = m, !.env = processEnv]
    /\ UNCHANGED <<ctorArgs, mergeRule, serverVars, envFiles, run, jobs>>
    /\ UNCHANGED <<pluginVars, optionVars, commandVars>>

-----------------------------------------------------------------------------
(* The api of a plugin: _getApiInstance (Service.js 195-229) *)

\* lines 202-212: the properties the proxy takes from the service
ApiAllowList ==
    {"registerCommand", "version", "on", "emit", "registerCommandFlag",
     "addPlugin", "getWebpackChainConfig", "getWebpackConfig",
     "addDevServerMiddleware"}

\* What a call of a method of the service returns, as the object it is,
\* for every method whose return value is the same object on every path:
\* "this" is the service (return this, lines 193, 241, 255, 301, 305, 441,
\* 494, 499, and EventEmitter's on), "boolean" what EventEmitter's emit
\* returns, "chainableConfig" the new Config of line 503, "config" the plain
\* object built by lines 514-549, "promise" what an async method returns,
\* "argument" the config object normalizeConfig was given (line 382),
\* "array" the new array of resolvePlugins (line 121), "proxy" the Proxy of
\* line 198; loadEnv returns nothing.  What _loadPlugin returns depends on
\* its argument and is LoadPlugin.
Returned(method) ==
    CASE method \in {"registerCommand", "registerCommandFlag", "addPlugin",
                     "addDevServerMiddleware", "on", "init", "initPlugin",
                     "runCommand", "_registerCommand"} -> "this"
      [] method = "emit" -> "boolean"
      [] method = "getWebpackChainConfig" -> "chainableConfig"
      [] method = "getWebpackConfig" -> "config"
      [] method \in {"loadProjectOptions", "run"} -> "promise"
      [] method = "normalizeConfig" -> "argument"
      [] method = "resolvePlugins" -> "array"
      [] method = "_getApiInstance" -> "proxy"
      [] method = "loadEnv" -> "undefined"

\* line 220: the getters of the proxy, and the property each one reads
ApiGetters ==
    [getCwd |-> "cwd", getProjectOptions |-> "projectOptions",
     getVersion |-> "version", getPkg |-> "pkg"]

\* the allow-listed properties that are methods of the service; version is
\* a value (line 218)
ApiMethods == ApiAllowList \ {"version"}

\* lines 213-226: what api[prop] gives, called if it is a function.  An
\* allow-listed function is self[prop].bind(self), so the call is the call
\* on the service; version is the service's value; a getter returns the
\* property of the service it is named after; anything else is a member of
\* the PluginAPI object.
ApiCall(prop) ==
    IF prop \in ApiMethods THEN Returned(prop)
    ELSE IF prop \in ApiAllowList THEN prop
    ELSE IF prop \in DOMAIN ApiGetters THEN ApiGetters[prop]
    ELSE "pluginAPI"

-----------------------------------------------------------------------------
(* registerCommandFlag (Service.js 243-256) *)

\* flags = Object.assign(flags, flag)
MergeFlagFirstWins(flags, flag) == ObjectAssign(flag, flags)

MergeFlag(flags, flag) == ObjectAssign(flags, flag)

registerCommandFlag(cmdName, flag, handler) ==
    LET key == getCommandName(cmdName)
        flags == MapGetOr(registeredCommandFlags, key, EmptyMap)
        handlers == MapGetOr(registeredCommandHandlers, key, <<>>)
    IN  /\ pc = "idle"
        /\ Len(handlers) < MaxHandlers
        /\ registeredCommandFlags' =
               MapSet(registeredCommandFlags, key, MergeFlag(flags, flag))
        /\ registeredCommandHandlers' =
               MapSet(registeredCommandHandlers, key, Push(handlers, handler))
        /\ flagLog' = MapSet(flagLog, key,
               Append(MapGetOr(flagLog, key, <<>>), [flag |-> flag, handler |-> handler]))
        /\ last' = [NoCall EXCEPT !.op = "registerCommandFlag", !.cmd = key]
        /\ UNCHANGED <<registeredCommands, commandLog>>
        /\ UNCHANGED <<pluginVars, optionVars, restVars>>

-----------------------------------------------------------------------------
(* registerCommand (Service.js 257-302) *)

\* lines 285-289: a handler that is not a function is replaced by one that
\* only logs a warning
HandlerOrEmpty(handler) == IF handler = "none" THEN "emptyHandler" ELSE handler

\* lines 293-300: this.registeredCommands.set(cmdName, {...})
StoreCommandFirstWins(cmdName, descriptor) ==
    IF cmdName \in DOMAIN registeredCommands
    THEN registeredCommands
    ELSE MapSet(registeredCommands, cmdName, descriptor)

StoreCommand(cmdName, descriptor) ==
    MapSet(registeredCommands, cmdName, descriptor)

registerCommand(command, handler, builder) ==
    LET cmdName == getCommandName(command)
        descriptor == [command |-> command,
                       handler |-> HandlerOrEmpty(handler),
                       builder |-> builder]
    IN  /\ pc = "idle"
        /\ registeredCommands' = StoreCommand(cmdName, descriptor)
        /\ commandLog' = MapSet(commandLog, cmdName,
               [descriptor |-> descriptor,
                replaced |-> cmdName \in DOMAIN registeredCommands])
        /\ last' = [NoCall EXCEPT !.op = "registerCommand", !.cmd = cmdName]
        /\ UNCHANGED <<registeredCommandFlags, registeredCommandHandlers, flagLog>>
        /\ UNCHANGED <<pluginVars, optionVars, restVars>>

-----------------------------------------------------------------------------
(* runCommand (Service.js 384-442) *)

\* doit === false
IsFalsy(v) == v \in {"false", "undefined"}

IsFalse(v) == v = "false"

\* lines 407-420: the pre-handlers called by the loop from index i on, in
\* call order; the loop breaks after a call that returned false
RECURSIVE PreHandlerCalls(_, _)
PreHandlerCalls(handlers, i) ==
    IF i > Len(handlers) THEN <<>>
    ELSE IF IsFalse(PreHandlerReturn(handlers[i])) THEN <<handlers[i]>>
    ELSE <<handlers[i]>> \o PreHandlerCalls(handlers, i + 1)

\* lines 403-427: the functions the wrapping handler calls, in call order.
\* doit starts true and is the value returned by the last pre-handler called.
WrappedHandlerCalls(handlers, oHandler) ==
    LET called == PreHandlerCalls(handlers, 1)
        doit == IF called = <<>> THEN "true"
                ELSE PreHandlerReturn(called[Len(called)])
    IN  IF IsFalse(doit) THEN called ELSE called \o <<oHandler>>

\* line 401: const builder = Object.assign(flags, oFlags || {})
BuilderFlagsWin(flags, oFlags) == ObjectAssign(oFlags, flags)

CommandBuilder(flags, oFlags) == ObjectAssign(flags, oFlags)

\* lines 392-396: the command has no descriptor
UnknownCommandThrows(cmd) ==
    [NoCall EXCEPT !.op = "runCommand", !.cmd = cmd, !.threw = TRUE]

UnknownCommand(cmd) == [NoCall EXCEPT !.op = "runCommand", !.cmd = cmd]

\* lines 429-440: this._cli.command({command, handler, describe, builder,
\* aliases}) and this._cli.help().parse(rawArgs).  rawArgs[0] is cmd (lines
\* 437-439), so the parser calls the handler it was just given, once.  The
\* parser is not part of the service: what it was handed is kept in the
\* record of the call.
CliDispatch(cmd, builder, handlers, oHandler) ==
    [NoCall EXCEPT
        !.op = "runCommand", !.cmd = cmd, !.known = TRUE,
        !.registered = TRUE, !.parsed = TRUE, !.builder = builder,
        !.calls = WrappedHandlerCalls(handlers, oHandler)]

\* what a runCommand(cmd) call does to the registries
RunCommandCalled(cmd) ==
    LET handlers == MapGetOr(registeredCommandHandlers, cmd, <<>>)
        flags == MapGetOr(registeredCommandFlags, cmd, EmptyMap)
    IN  /\ IF cmd \notin DOMAIN registeredCommands
           THEN /\ last' = UnknownCommand(cmd)
                /\ UNCHANGED registeredCommandFlags
           ELSE LET d == registeredCommands[cmd]
                    builder == CommandBuilder(flags, d.builder)
                IN  \* Object.assign wrote into flags, which is the object the
                    \* Map holds when the key has one
                    /\ registeredCommandFlags' =
                           IF cmd \in DOMAIN registeredCommandFlags
                           THEN MapSet(registeredCommandFlags, cmd, builder)
                           ELSE registeredCommandFlags
                    /\ last' = CliDispatch(cmd, builder, handlers, d.handler)
        /\ UNCHANGED <<registeredCommands, registeredCommandHandlers,
                       flagLog, commandLog>>

runCommand(cmd) ==
    /\ pc = "idle"
    /\ RunCommandCalled(cmd)
    /\ UNCHANGED <<pluginVars, optionVars, restVars>>

-----------------------------------------------------------------------------
(* addPlugin (Service.js 484-495) *)

\* lines 492-493: _loadPlugin([name, options]) is pushed whatever it
\* returned.  options defaults to {}, which is truthy, so a loaded plugin is
\* stored as the pair [plugin, options].
AddedPlugins(name) ==
    LET plugin == LoadPlugin([name EXCEPT !.options = "given"])
    IN  Push(plugins, plugin)

addPlugin(name) ==
    /\ pc = "idle"
    /\ addCalls < MaxAddPlugin
    /\ addCalls' = addCalls + 1
    /\ plugins' = AddedPlugins(name)
    /\ last' = [NoCall EXCEPT !.op = "addPlugin", !.returned = Returned("addPlugin")]
    /\ UNCHANGED <<initialized, mode, webpackChainFns, webpackRawConfigFns,
                   pc, initIdx, initLen, initDone, applyLog>>
    /\ UNCHANGED <<optionVars, commandVars, restVars>>

-----------------------------------------------------------------------------
(* run, line 464: this.projectOptions = projectOptions *)

AssignProjectOptions(config) ==
    /\ pc = "idle"
    /\ projectOptions' = [set |-> TRUE, config |-> config, ref |-> "own"]
    /\ last' = [NoCall EXCEPT !.op = "projectOptions"]
    /\ UNCHANGED <<initProjectOptions, defaultConfig, configFile>>
    /\ UNCHANGED <<pluginVars, commandVars, restVars>>

-----------------------------------------------------------------------------
(* loadProjectOptions (Service.js 307-359) *)

\* defaultsDeep and normalizeConfig write into their first argument:
\* this._initProjectOptions gets the defaults (line 317), the object the
\* config file exports gets the merged and normalized options (354, 358),
\* and without a config file this._initProjectOptions is normalized too.
\* The method is async: with a config file that validateOptions accepts it
\* waits at the await of line 339 and goes on, as a promise job, once the
\* stack is empty; what it returns or throws reaches its caller as a later
\* promise job.  Jobs run in the order they were queued.

\* direct calls of loadProjectOptions whose jobs may wait at once
MaxLoading == 2

\* the job that continues a call after line 339
ResumeJob(byRun, init) ==
    [kind |-> "resume", byRun |-> byRun, init |-> init, threw |-> FALSE,
     ref |-> "none"]

\* the job that hands the outcome of a call to its caller: the exception, or
\* the object ref that line 358 returned
ThenJob(byRun, threw, ref) ==
    [kind |-> "then", byRun |-> byRun, init |-> EmptyMap, threw |-> threw,
     ref |-> ref]

\* no call is on the stack: init is not running and run, if it was called,
\* waits at line 460 or has ended
StackEmpty == pc = "idle" /\ run.pc \in {"idle", "assign", "done", "rejected"}

\* the object a reference names, as it is now
Deref(ref) == IF ref = "init" THEN initProjectOptions ELSE configFile.config

\* this.projectOptions once the two objects hold init and file: line 464
\* assigned the object itself, so a write to it shows
AliasedOptions(init, file) ==
    CASE projectOptions.ref = "init" -> [projectOptions EXCEPT !.config = init]
      [] projectOptions.ref = "file" -> [projectOptions EXCEPT !.config = file]
      [] OTHER -> projectOptions

\* lines 338-343: validateOptions(result.config) throws
ValidateOptionsAccepts(file) == FALSE

ValidateOptionsThrows(file) == ~file.valid

\* lines 307-343 and, without a config file, 358: the call up to its await,
\* throw or return
LoadProjectOptionsCalled(byRun) ==
    LET config == DefaultsDeep(initProjectOptions, defaultConfig)
        called == [NoCall EXCEPT
                      !.op = "loadProjectOptions",
                      !.returned = Returned("loadProjectOptions"),
                      !.given = [init |-> initProjectOptions, file |-> configFile]]
    IN  /\ IF configFile.exists
           THEN IF ~ValidateOptionsThrows(configFile)
                THEN \* line 339: await validateOptions(result.config)
                     /\ initProjectOptions' = config
                     /\ last' = [called EXCEPT !.op = "await"]
                     /\ jobs' = Append(jobs, ResumeJob(byRun, initProjectOptions))
                ELSE \* lines 340-343: validateOptions threw, SError is thrown
                     /\ initProjectOptions' = config
                     /\ last' = [called EXCEPT !.threw = TRUE]
                     /\ jobs' = Append(jobs, ThenJob(byRun, TRUE, "none"))
           ELSE /\ initProjectOptions' = normalizeConfig(config)
                /\ last' = [called EXCEPT !.options = normalizeConfig(config),
                                          !.ref = "init"]
                /\ jobs' = Append(jobs, ThenJob(byRun, FALSE, "init"))
        /\ projectOptions' = AliasedOptions(initProjectOptions', configFile.config)
        /\ UNCHANGED <<defaultConfig, configFile>>

loadProjectOptions ==
    /\ StackEmpty
    /\ Len(jobs) < MaxLoading
    /\ LoadProjectOptionsCalled(FALSE)
    /\ UNCHANGED <<pluginVars, commandVars, ctorArgs, mergeRule, serverVars, envVars, run>>

\* lines 345-358: a call goes on after its await.  config is the object of
\* this._initProjectOptions, read as it is now (line 354).
loadProjectOptionsResumed ==
    /\ StackEmpty
    /\ jobs # <<>>
    /\ Head(jobs).kind = "resume"
    /\ LET job == Head(jobs)
           merged == normalizeConfig(
                         MergeFileConfig(configFile.config, initProjectOptions))
       IN  /\ configFile' = [configFile EXCEPT !.config = merged]
           /\ projectOptions' = AliasedOptions(initProjectOptions, merged)
           /\ last' = [NoCall EXCEPT
                          !.op = "loadProjectOptions",
                          !.returned = Returned("loadProjectOptions"),
                          !.given = [init |-> job.init, file |-> configFile],
                          !.options = merged,
                          !.ref = "file"]
           /\ jobs' = Append(Tail(jobs), ThenJob(job.byRun, FALSE, "file"))
    /\ UNCHANGED <<initProjectOptions, defaultConfig>>
    /\ UNCHANGED <<pluginVars, commandVars, ctorArgs, mergeRule, serverVars, envVars, run>>

\* the caller of a direct call gets the outcome: the exception, or the
\* returned object, which it reads as it is now
loadProjectOptionsThen ==
    /\ StackEmpty
    /\ jobs # <<>>
    /\ Head(jobs).kind = "then"
    /\ ~Head(jobs).byRun
    /\ LET job == Head(jobs)
       IN  last' = [NoCall EXCEPT
                       !.op = "then",
                       !.threw = job.threw,
                       !.ref = job.ref,
                       !.options = IF job.threw THEN EmptyMap ELSE Deref(job.ref)]
    /\ jobs' = Tail(jobs)
    /\ UNCHANGED <<pluginVars, optionVars, commandVars>>
    /\ UNCHANGED <<ctorArgs, mergeRule, serverVars, envVars, run>>

-----------------------------------------------------------------------------
(* addDevServerMiddleware (Service.js 496-500) *)

\* middleware factories one service may collect
MaxMiddlewares == 2

\* middleware factories, each a function
MiddlewareInputs == {"m1", "m2"}

addDevServerMiddleware(middlewareFactory) ==
    /\ pc = "idle"
    /\ Len(devServerMiddlewares) < MaxMiddlewares
    /\ devServerMiddlewares' = Push(devServerMiddlewares, middlewareFactory)
    /\ last' = [NoCall EXCEPT !.op = "addDevServerMiddleware",
                              !.returned = Returned("addDevServerMiddleware")]
    /\ UNCHANGED <<ctorArgs, mergeRule, handed, envVars, run, jobs>>
    /\ UNCHANGED <<pluginVars, optionVars, commandVars>>

-----------------------------------------------------------------------------
(* getWebpackChainConfig and getWebpackConfig (Service.js 502-550) *)

\* A webpack configuration is a function from its keys to their values: a
\* string for devtool and mode, an array for plugins, an object for
\* devServer (port, host and the before hook).

\* The raw mutators of the model, by name: a literal fragment, or a function
\* of the configuration that returns a fragment or returns nothing.
RawMutator(fn) ==
    CASE fn = "fragA" ->
             [function |-> FALSE, returns |-> TRUE,
              result |-> [devtool |-> "source-map", plugins |-> <<"pA">>,
                          devServer |-> [port |-> 8001, host |-> "a",
                                         before |-> Hook("hookA")]]]
      [] fn = "fragB" ->
             [function |-> FALSE, returns |-> TRUE,
              result |-> [devtool |-> "eval", plugins |-> <<"pB">>,
                          devServer |-> [port |-> 8002,
                                         proxy |-> [api |-> "b", ws |-> "w"]]]]
      [] fn = "fnB" ->
             [function |-> TRUE, returns |-> TRUE,
              result |-> [mode |-> "development", plugins |-> <<"pF", "pG">>,
                          devServer |-> [before |-> Hook("hookF")]]]
      [] fn = "projectRaw" ->
             [function |-> TRUE, returns |-> TRUE,
              result |-> [devtool |-> "project"]]
      [] OTHER ->
             [function |-> TRUE, returns |-> FALSE, result |-> EmptyMap]

\* the names of the raw mutators a plugin registers
RawKinds == {"fragA", "fragB", "fnB", "fnNothing"}

\* webpack-merge is not part of the service.  What it does with a key of
\* both objects, as far as the service's documentation says: two objects
\* are merged key by key, and any other value of the second replaces the
\* first's, except that two arrays are concatenated (always, or only when
\* their lengths differ, arrays of one length being merged index by index)
\* and that two functions may be composed into one that calls both.  The
\* service works with any of these.
MergeRules == [arrays : {"concat", "byIndex"}, functions : {"compose", "replace"}]

\* webpackMerge(a, b) of lines 522 and 526, under mergeRule
RECURSIVE webpackMerge(_, _)
webpackMerge(a, b) ==
    [k \in (DOMAIN a) \cup (DOMAIN b) |->
        IF k \notin DOMAIN b THEN a[k]
        ELSE IF k \notin DOMAIN a THEN b[k]
        ELSE IF k \in NestedKeys THEN webpackMerge(a[k], b[k])
        ELSE IF k \in ArrayKeys
        THEN IF mergeRule.arrays = "byIndex" /\ Len(a[k]) = Len(b[k])
             THEN b[k] ELSE a[k] \o b[k]
        ELSE IF k = "before" /\ mergeRule.functions = "compose"
        THEN Hook(a[k].inner \o "+" \o b[k].inner)
        ELSE b[k]]

\* lodash.merge (line 534): the destination with every key of the source
\* assigned; where both have the key, two objects are merged the same way
\* at every depth, two arrays index by index (the source's element where it
\* has one), and any other value of the source replaces the destination's
lMergeKeepsObject(object, source) == DefaultsDeep(object, source)

RECURSIVE lMerge(_, _)
lMerge(object, source) ==
    [k \in (DOMAIN object) \cup (DOMAIN source) |->
        IF k \notin DOMAIN source THEN object[k]
        ELSE IF k \notin DOMAIN object THEN source[k]
        ELSE IF k \in NestedKeys THEN lMerge(object[k], source[k])
        ELSE IF k \in ArrayKeys
        THEN [i \in 1..Max({Len(object[k]), Len(source[k])}) |->
                 IF i <= Len(source[k]) THEN source[k][i] ELSE object[k][i]]
        ELSE source[k]]

\* line 514: chainableConfig.toConfig().  A chain mutator of the model adds
\* one webpack plugin, named after itself, to the builder.
ToConfig(chainFns) ==
    IF chainFns = <<>> THEN EmptyMap ELSE [plugins |-> chainFns]

\* lines 517-528: the forEach over the raw mutators, from index i on
RECURSIVE ApplyRawConfigFnsSwapped(_, _, _)
ApplyRawConfigFnsSwapped(config, fns, i) ==
    IF i > Len(fns) THEN config
    ELSE LET fn == RawMutator(fns[i])
         IN  ApplyRawConfigFnsSwapped(
                 IF fn.returns THEN webpackMerge(fn.result, config) ELSE config,
                 fns, i + 1)

RECURSIVE ApplyRawConfigFns(_, _, _)
ApplyRawConfigFns(config, fns, i) ==
    IF i > Len(fns) THEN config
    ELSE LET fn == RawMutator(fns[i])
         IN  ApplyRawConfigFns(
                 IF fn.returns THEN webpackMerge(config, fn.result) ELSE config,
                 fns, i + 1)

\* lines 535-548: the before hook of the returned configuration
BeforeHook(devServer, middlewares) ==
    LET before == MapGetOr(devServer, "before", NoHook)
    IN  IF Len(middlewares) > 0
        THEN [wrapped |-> TRUE, inner |-> before.inner]
        ELSE before

\* lines 534-548: config.devServer of the returned configuration
DevServerConfig(config, options, middlewares) ==
    LET devServer == lMerge(MapGetOr(config, "devServer", EmptyMap),
                            MapGetOr(options, "devServer", EmptyMap))
    IN  MapSet(devServer, "before", BeforeHook(devServer, middlewares))

\* lines 502-507: a new Config with every chain mutator applied, in order
ChainConfig ==
    [NoConfig EXCEPT !.chain = webpackChainFns, !.value = ToConfig(webpackChainFns)]

\* lines 509-550.  The default argument is evaluated first (a chain config),
\* then line 510 throws unless this.initialized; line 534 reads
\* this.projectOptions.devServer, a TypeError while projectOptions is
\* undefined.  The copying of __ruleNames (530-532) changes no key.
WebpackConfigCall ==
    IF ~initialized \/ ~projectOptions.set
    THEN [NoCall EXCEPT !.op = "getWebpackConfig", !.threw = TRUE,
                        !.complete = initDone]
    ELSE LET merged == ApplyRawConfigFns(ToConfig(webpackChainFns),
                                         webpackRawConfigFns, 1)
         IN  [NoCall EXCEPT
                 !.op = "getWebpackConfig", !.complete = initDone,
                 !.returned = Returned("getWebpackConfig"),
                 !.config = [chain |-> webpackChainFns,
                             raw |-> webpackRawConfigFns,
                             merged |-> merged,
                             value |-> MapSet(merged, "devServer",
                                 DevServerConfig(merged, projectOptions.config,
                                                 devServerMiddlewares))]]

\* the before hook a getWebpackConfig call leaves with its caller
HandedBy(call) == IF call.threw THEN handed ELSE call.config.value.devServer.before

getWebpackChainConfig ==
    /\ pc = "idle"
    /\ last' = [NoCall EXCEPT !.op = "getWebpackChainConfig",
                              !.complete = initDone, !.config = ChainConfig,
                              !.returned = Returned("getWebpackChainConfig")]
    /\ UNCHANGED <<pluginVars, optionVars, commandVars, restVars>>

getWebpackConfig ==
    /\ pc = "idle"
    /\ last' = WebpackConfigCall
    /\ handed' = HandedBy(WebpackConfigCall)
    /\ UNCHANGED <<ctorArgs, mergeRule, devServerMiddlewares, envVars, run, jobs>>
    /\ UNCHANGED <<pluginVars, optionVars, commandVars>>

\* lines 540-545: what a call of the before hook calls, in call order: the
\* wrapper reads the array of middleware factories as it is when it is
\* called, calls each factory and installs what it returns (app.use(fn())),
\* then calls the hook it wraps if that is a function
BeforeCallsHookFirst(hook, middlewares) ==
    (IF hook.inner # "undefined" THEN <<hook.inner>> ELSE <<>>)
        \o (IF hook.wrapped THEN middlewares ELSE <<>>)

BeforeCalls(hook, middlewares) ==
    (IF hook.wrapped THEN middlewares ELSE <<>>)
        \o (IF hook.inner # "undefined" THEN <<hook.inner>> ELSE <<>>)

\* the dev server calls the before hook of the configuration it was given
invokeBefore ==
    /\ pc = "idle"
    /\ handed # NoHook
    /\ last' = [NoCall EXCEPT !.op = "before",
                              !.calls = BeforeCalls(handed, devServerMiddlewares)]
    /\ UNCHANGED <<pluginVars, optionVars, commandVars, restVars>>

-----------------------------------------------------------------------------
(* init and initPlugin (Service.js 174-242) *)

\* line 175: if (this.initialized) return this
NeverInitialized == FALSE

AlreadyInitialized == initialized

\* lines 175-179: a call on an initialized service
initAgain(m) ==
    /\ pc = "idle"
    /\ AlreadyInitialized
    /\ last' = [NoCall EXCEPT !.op = "init", !.mode = m, !.again = TRUE]
    /\ UNCHANGED <<pluginVars, optionVars, commandVars, restVars>>

\* lines 180-183: the flag and the mode are set, and forEach starts over the
\* elements the array has now
InitStarted(m) ==
    /\ initialized' = TRUE
    /\ mode' = m
    /\ pc' = "init"
    /\ initIdx' = 1
    /\ initLen' = Len(plugins)
    /\ last' = [NoCall EXCEPT !.op = "init", !.mode = m]
    /\ UNCHANGED <<plugins, webpackChainFns, webpackRawConfigFns, initDone,
                   applyLog, addCalls>>

initStart(m) ==
    /\ pc = "idle"
    /\ ~AlreadyInitialized
    /\ InitStarted(m)
    /\ UNCHANGED <<optionVars, commandVars, restVars>>

\* an exception leaves init
InitThrows ==
    /\ pc' = "idle"
    /\ last' = [NoCall EXCEPT !.op = "init", !.mode = mode, !.threw = TRUE]

\* lines 183-185 and 230-242: one round of the forEach.  Destructuring
\* {id, apply} of an undefined element is a TypeError.  The plugin's apply
\* is called with the api of lines 195-229, whose addPlugin and
\* getWebpackConfig are the service's own methods, bound.
initPlugin ==
    /\ pc = "init"
    /\ initIdx <= initLen
    /\ LET plugin == plugins[initIdx]
       IN  IF ~plugin.loaded
           THEN /\ InitThrows
                /\ UNCHANGED <<plugins, webpackChainFns, webpackRawConfigFns,
                               initIdx, applyLog, serverVars>>
           ELSE /\ applyLog' = Append(applyLog, initIdx)
                /\ CASE plugin.kind = "chain" ->
                          /\ webpackChainFns' = Push(webpackChainFns, plugin.id)
                          /\ initIdx' = initIdx + 1
                          /\ UNCHANGED <<plugins, webpackRawConfigFns, pc, last,
                                         serverVars>>
                     [] plugin.kind \in RawKinds ->
                          /\ webpackRawConfigFns' =
                                 Push(webpackRawConfigFns, plugin.kind)
                          /\ initIdx' = initIdx + 1
                          /\ UNCHANGED <<plugins, webpackChainFns, pc, last,
                                         serverVars>>
                     [] plugin.kind = "middleware" ->
                          /\ devServerMiddlewares' =
                                 Push(devServerMiddlewares, plugin.id)
                          /\ last' = [NoCall EXCEPT
                                         !.op = "addDevServerMiddleware",
                                         !.viaApi = TRUE,
                                         !.returned = ApiCall("addDevServerMiddleware")]
                          /\ initIdx' = initIdx + 1
                          /\ UNCHANGED <<plugins, webpackChainFns,
                                         webpackRawConfigFns, pc, handed>>
                     [] plugin.kind = "addPlugin" ->
                          /\ plugins' = AddedPlugins(ChildPlugin)
                          /\ last' = [NoCall EXCEPT !.op = "addPlugin",
                                         !.viaApi = TRUE,
                                         !.returned = ApiCall("addPlugin")]
                          /\ initIdx' = initIdx + 1
                          /\ UNCHANGED <<webpackChainFns, webpackRawConfigFns,
                                         pc, serverVars>>
                     [] OTHER ->
                          /\ IF WebpackConfigCall.threw
                             THEN InitThrows /\ UNCHANGED <<initIdx, handed>>
                             ELSE /\ last' = [WebpackConfigCall EXCEPT
                                                 !.viaApi = TRUE,
                                                 !.returned = ApiCall("getWebpackConfig")]
                                  /\ handed' = HandedBy(WebpackConfigCall)
                                  /\ initIdx' = initIdx + 1
                                  /\ UNCHANGED pc
                          /\ UNCHANGED <<plugins, webpackChainFns,
                                         webpackRawConfigFns, devServerMiddlewares>>
    /\ UNCHANGED <<initialized, mode, initLen, initDone, addCalls>>
    /\ UNCHANGED <<optionVars, commandVars, ctorArgs, mergeRule, envVars, run, jobs>>

\* lines 186-193, after the forEach: reading this.projectOptions.chainWebpack
\* is a TypeError while projectOptions is undefined
initFinish ==
    /\ pc = "init"
    /\ initIdx > initLen
    /\ IF ~projectOptions.set
       THEN /\ InitThrows
            /\ UNCHANGED <<webpackChainFns, webpackRawConfigFns, initDone>>
       ELSE /\ webpackChainFns' =
                   IF "chainWebpack" \in DOMAIN projectOptions.config
                   THEN Push(webpackChainFns, projectOptions.config.chainWebpack)
                   ELSE webpackChainFns
            /\ webpackRawConfigFns' =
                   IF "configWebpack" \in DOMAIN projectOptions.config
                   THEN Push(webpackRawConfigFns, projectOptions.config.configWebpack)
                   ELSE webpackRawConfigFns
            /\ initDone' = TRUE
            /\ pc' = "idle"
            /\ last' = [NoCall EXCEPT !.op = "init", !.mode = mode]
    /\ UNCHANGED <<plugins, initialized, mode, initIdx, initLen, applyLog, addCalls>>
    /\ UNCHANGED <<optionVars, commandVars, restVars>>

-----------------------------------------------------------------------------
(* run (Service.js 444-483) *)

\* line 449
RunMode(cmd, argv) ==
    IF argv.mode # "undefined" THEN argv.mode
    ELSE IF cmd = Build /\ argv.watch THEN "development"
    ELSE "production"

\* line 472: require('../plugins/progress'), a plugin object
ProgressPlugin == ObjectSpecifier("progress", TRUE, "chain", "none")

\* The statements of run in the order of the source: loadEnv (454),
\* loadProjectOptions (460), this.projectOptions = (464), the addPlugin
\* calls (466-473), init (475), runCommand (479).  run.pc names the next one.
RunOrder ==
    <<"loadEnv", "loadProjectOptions", "assign", "plugins", "init",
      "runCommand", "done">>

RunStepAfterSkipsInit(step) ==
    IF step = "plugins" THEN "runCommand"
    ELSE RunOrder[1 + CHOOSE i \in 1..Len(RunOrder) : RunOrder[i] = step]

RunStepAfter(step) ==
    RunOrder[1 + CHOOSE i \in 1..Len(RunOrder) : RunOrder[i] = step]

RunLogged(step) == Append(run.log, step)

\* lines 444-455: the mode (449), then loadEnv(mode) (454)
runStart(cmd, argv) ==
    /\ run.pc = "idle"
    /\ pc = "idle"
    /\ LET m == RunMode(cmd, argv)
       IN  /\ processEnv' = LoadedEnv(processEnv, envFiles, m)
           /\ last' = [NoCall EXCEPT !.op = "loadEnv", !.mode = m,
                                     !.env = processEnv]
           /\ run' = [pc |-> RunStepAfter("loadEnv"), cmd |-> cmd, mode |-> m,
                      noProgress |-> argv.noProgress, todo |-> <<>>,
                      log |-> <<"loadEnv">>]
    /\ UNCHANGED <<ctorArgs, mergeRule, serverVars, envFiles, jobs>>
    /\ UNCHANGED <<pluginVars, optionVars, commandVars>>

\* line 460: this.loadProjectOptions(argv.configFile) is called, and run
\* waits for its promise
runLoadProjectOptions ==
    /\ run.pc = "loadProjectOptions"
    /\ LoadProjectOptionsCalled(TRUE)
    /\ run' = [run EXCEPT !.pc = RunStepAfter("loadProjectOptions"),
                          !.log = RunLogged("loadProjectOptions")]
    /\ UNCHANGED <<ctorArgs, mergeRule, serverVars, envVars>>
    /\ UNCHANGED <<pluginVars, commandVars>>

\* the job of the call that run waits for is next
RunResumes(threw) ==
    /\ run.pc = "assign"
    /\ pc = "idle"
    /\ jobs # <<>>
    /\ Head(jobs).kind = "then"
    /\ Head(jobs).byRun
    /\ Head(jobs).threw = threw

\* line 460: the promise was rejected, which leaves run
runRejected ==
    /\ RunResumes(TRUE)
    /\ run' = [run EXCEPT !.pc = "rejected"]
    /\ jobs' = Tail(jobs)
    /\ last' = [NoCall EXCEPT !.op = "run", !.threw = TRUE,
                              !.returned = Returned("run")]
    /\ UNCHANGED <<ctorArgs, mergeRule, serverVars, envVars>>
    /\ UNCHANGED <<pluginVars, optionVars, commandVars>>

\* lines 460-466: run goes on with the object the promise was resolved
\* with; it is assigned, and its plugins, if they are a non-empty array, are
\* to be added
runAssign ==
    /\ RunResumes(FALSE)
    /\ LET options == Deref(Head(jobs).ref)
       IN  /\ projectOptions' = [set |-> TRUE, config |-> options,
                                 ref |-> Head(jobs).ref]
           /\ run' = [run EXCEPT
                         !.pc = RunStepAfter("assign"),
                         !.todo = MapGetOr(options, "plugins", <<>>),
                         !.log = RunLogged("projectOptions")]
    /\ jobs' = Tail(jobs)
    /\ last' = [NoCall EXCEPT !.op = "projectOptions"]
    /\ UNCHANGED <<initProjectOptions, defaultConfig, configFile>>
    /\ UNCHANGED <<ctorArgs, mergeRule, serverVars, envVars>>
    /\ UNCHANGED <<pluginVars, commandVars>>

\* lines 466-468: projectOptions.plugins.forEach(p => this.addPlugin(p))
runAddPlugin ==
    /\ run.pc = "plugins"
    /\ run.todo # <<>>
    /\ plugins' = AddedPlugins(Head(run.todo))
    /\ last' = [NoCall EXCEPT !.op = "addPlugin", !.returned = Returned("addPlugin")]
    /\ run' = [run EXCEPT !.todo = Tail(run.todo), !.log = RunLogged("addPlugin")]
    /\ UNCHANGED <<initialized, mode, webpackChainFns, webpackRawConfigFns,
                   pc, initIdx, initLen, initDone, applyLog, addCalls>>
    /\ UNCHANGED <<ctorArgs, mergeRule, serverVars, envVars, jobs>>
    /\ UNCHANGED <<optionVars, commandVars>>

\* lines 471-473: the progress plugin, unless argv.noProgress
runAddProgress ==
    /\ run.pc = "plugins"
    /\ run.todo = <<>>
    /\ IF run.noProgress
       THEN /\ UNCHANGED <<plugins, last>>
            /\ run' = [run EXCEPT !.pc = RunStepAfter("plugins")]
       ELSE /\ plugins' = AddedPlugins(ProgressPlugin)
            /\ last' = [NoCall EXCEPT !.op = "addPlugin",
                                      !.returned = Returned("addPlugin")]
            /\ run' = [run EXCEPT !.pc = RunStepAfter("plugins"),
                                  !.log = RunLogged("progress")]
    /\ UNCHANGED <<initialized, mode, webpackChainFns, webpackRawConfigFns,
                   pc, initIdx, initLen, initDone, applyLog, addCalls>>
    /\ UNCHANGED <<ctorArgs, mergeRule, serverVars, envVars, jobs>>
    /\ UNCHANGED <<optionVars, commandVars>>

\* line 475: this.init(mode) is called; initPlugin and initFinish run it
runInit ==
    /\ run.pc = "init"
    /\ pc = "idle"
    /\ IF AlreadyInitialized
       THEN /\ last' = [NoCall EXCEPT !.op = "init", !.mode = run.mode,
                                      !.again = TRUE]
            /\ UNCHANGED pluginVars
       ELSE InitStarted(run.mode)
    /\ run' = [run EXCEPT !.pc = "applying", !.log = RunLogged("init")]
    /\ UNCHANGED <<ctorArgs, mergeRule, serverVars, envVars, jobs>>
    /\ UNCHANGED <<optionVars, commandVars>>

\* line 475: init has returned, or thrown, which leaves run
runInitReturned ==
    /\ run.pc = "applying"
    /\ pc = "idle"
    /\ run' = [run EXCEPT
                  !.pc = IF last.op = "init" /\ last.threw THEN "rejected"
                         ELSE RunStepAfter("init")]
    /\ UNCHANGED <<last, ctorArgs, mergeRule, serverVars, envVars, jobs>>
    /\ UNCHANGED <<pluginVars, optionVars, commandVars>>

\* line 479: this.runCommand(cmd, rawArgv)
runRunCommand ==
    /\ run.pc = "runCommand"
    /\ pc = "idle"
    /\ RunCommandCalled(run.cmd)
    /\ run' = [run EXCEPT !.pc = RunStepAfter("runCommand"),
                          !.log = RunLogged("runCommand")]
    /\ UNCHANGED <<ctorArgs, mergeRule, serverVars, envVars, jobs>>
    /\ UNCHANGED <<pluginVars, optionVars>>

-----------------------------------------------------------------------------
(* The service from its construction: the plugin list of any constructor   *)
(* arguments, then any calls of addPlugin, init and the configuration      *)
(* getters, with the project options assigned as run assigns them.         *)

Init ==
    /\ \E arg \in CtorPluginArgs, useBuiltInPlugin \in BOOLEAN :
           /\ plugins = resolvePlugins(arg, useBuiltInPlugin)
           /\ ctorArgs = [plugins |-> arg, useBuiltInPlugin |-> useBuiltInPlugin]
    /\ initialized = FALSE
    /\ mode = "undefined"
    /\ initProjectOptions = EmptyMap
    /\ projectOptions = NoOptions
    /\ defaultConfig = EmptyMap
    /\ configFile = NoFile
    /\ webpackChainFns = <<>>
    /\ webpackRawConfigFns = <<>>
    /\ registeredCommands = EmptyMap
    /\ registeredCommandFlags = EmptyMap
    /\ registeredCommandHandlers = EmptyMap
    /\ pc = "idle"
    /\ initIdx = 0
    /\ initLen = 0
    /\ initDone = FALSE
    /\ applyLog = <<>>
    /\ addCalls = 0
    /\ flagLog = EmptyMap
    /\ commandLog = EmptyMap
    /\ last = NoCall
    /\ devServerMiddlewares = <<>>
    /\ handed = NoHook
    /\ mergeRule \in MergeRules
    /\ processEnv = EmptyMap
    /\ envFiles = NoEnvFiles
    /\ run = NoRun
    /\ jobs = <<>>

DoAddPlugin == \E name \in AddPluginInputs : addPlugin(name)

DoAssignProjectOptions == \E config \in OptionInputs : AssignProjectOptions(config)

DoInitAgain == \E m \in Modes : initAgain(m)

DoInitStart == \E m \in Modes : initStart(m)

Next ==
    \/ DoAddPlugin
    \/ DoAssignProjectOptions
    \/ DoInitStart
    \/ DoInitAgain
    \/ initPlugin
    \/ initFinish
    \/ getWebpackChainConfig
    \/ getWebpackConfig

Spec == Init /\ [][Next]_vars

-----------------------------------------------------------------------------
(* The command registries on their own: any calls of registerCommand,      *)
(* registerCommandFlag and runCommand on a constructed service.            *)

InitCommands ==
    /\ plugins = <<>>
    /\ initialized = FALSE
    /\ mode = "undefined"
    /\ initProjectOptions = EmptyMap
    /\ projectOptions = NoOptions
    /\ defaultConfig = EmptyMap
    /\ configFile = NoFile
    /\ webpackChainFns = <<>>
    /\ webpackRawConfigFns = <<>>
    /\ registeredCommands = EmptyMap
    /\ registeredCommandFlags = EmptyMap
    /\ registeredCommandHandlers = EmptyMap
    /\ pc = "idle"
    /\ initIdx = 0
    /\ initLen = 0
    /\ initDone = FALSE
    /\ applyLog = <<>>
    /\ addCalls = 0
    /\ flagLog = EmptyMap
    /\ commandLog = EmptyMap
    /\ last = NoCall
    /\ ctorArgs = NoCtorArgs
    /\ devServerMiddlewares = <<>>
    /\ handed = NoHook
    /\ mergeRule = [arrays |-> "concat", functions |-> "compose"]
    /\ processEnv = EmptyMap
    /\ envFiles = NoEnvFiles
    /\ run = NoRun
    /\ jobs = <<>>

DoRegisterCommand ==
    \E command \in CommandInputs, handler \in HandlerInputs, builder \in BuilderInputs :
        registerCommand(command, handler, builder)

DoRegisterCommandFlag ==
    \E cmdName \in CommandNameInputs, flag \in FlagInputs, handler \in PreHandlers :
        registerCommandFlag(cmdName, flag, handler)

DoRunCommand == \E cmd \in RunInputs : runCommand(cmd)

NextCommands == DoRegisterCommand \/ DoRegisterCommandFlag \/ DoRunCommand

SpecCommands == InitCommands /\ [][NextCommands]_vars

\* The registrations on their own: any calls of registerCommand and
\* registerCommandFlag, before any command is run.
NextRegister == DoRegisterCommand \/ DoRegisterCommandFlag

SpecRegister == InitCommands /\ [][NextRegister]_vars

-----------------------------------------------------------------------------
(* The project options on their own: loadProjectOptions on a service       *)
(* constructed with any projectOptions, with or without a config file.     *)

Str_a == <<"a">>
Str_b == <<"/", "b", "/">>
Str_c == <<".", "/", "c">>
Str_dist == <<"d", "i", "s", "t">>
Str_out == <<"o", "u", "t", "/">>
Str_build == <<"b", "u", "i", "l", "d">>
Str_cdn == <<"h", "t", "t", "p", ":", "/", "/", "x">>
Str_deep == <<"o", "/", "/">>

\* what an options object may say about each option: nothing, or a value
PublicPathInputs == {EmptyMap} \cup {[publicPath |-> v] : v \in {Str_a, Str_b, Str_c, Str_cdn}}
OutputDirInputs == {EmptyMap} \cup {[outputDir |-> v] : v \in {Str_out, Str_build, Str_deep}}
DevServerInputs ==
    {EmptyMap} \cup
    {[devServer |-> v] :
        v \in {[port |-> 8888, proxy |-> [api |-> "a"]],
               [port |-> 9000, host |-> "localhost", proxy |-> [api |-> "b", ws |-> "w"]]}}

\* options objects: a value for some of the options
ConfigInputs ==
    {ObjectAssign(ObjectAssign(ObjectAssign(p, o), d), g) :
        p \in PublicPathInputs, o \in OutputDirInputs, d \in DevServerInputs,
        g \in {EmptyMap, [plugins |-> <<"x", "y">>], [plugins |-> <<"a">>]}}

\* the defaults of ./options
DefaultInputs ==
    {[publicPath |-> <<>>, outputDir |-> Str_dist],
     [publicPath |-> <<"/">>, outputDir |-> Str_dist,
      devServer |-> [port |-> 8899, hot |-> TRUE]]}

\* config files: none, or one exporting an options object that
\* validateOptions accepts or rejects
FileInputs ==
    {NoFile} \cup
    {[exists |-> TRUE, valid |-> v, config |-> c] : v \in BOOLEAN, c \in ConfigInputs}

InitOptions ==
    /\ initProjectOptions \in ConfigInputs
    /\ defaultConfig \in DefaultInputs
    /\ configFile \in FileInputs
    /\ projectOptions = NoOptions
    /\ plugins = <<>>
    /\ initialized = FALSE
    /\ mode = "undefined"
    /\ webpackChainFns = <<>>
    /\ webpackRawConfigFns = <<>>
    /\ registeredCommands = EmptyMap
    /\ registeredCommandFlags = EmptyMap
    /\ registeredCommandHandlers = EmptyMap
    /\ pc = "idle"
    /\ initIdx = 0
    /\ initLen = 0
    /\ initDone = FALSE
    /\ applyLog = <<>>
    /\ addCalls = 0
    /\ flagLog = EmptyMap
    /\ commandLog = EmptyMap
    /\ last = NoCall
    /\ ctorArgs = NoCtorArgs
    /\ devServerMiddlewares = <<>>
    /\ handed = NoHook
    /\ mergeRule = [arrays |-> "concat", functions |-> "compose"]
    /\ processEnv = EmptyMap
    /\ envFiles = NoEnvFiles
    /\ run = NoRun
    /\ jobs = <<>>

NextOptions ==
    \/ loadProjectOptions
    \/ loadProjectOptionsResumed
    \/ loadProjectOptionsThen

SpecOptions == InitOptions /\ [][NextOptions]_vars

-----------------------------------------------------------------------------
(* The webpack configuration: a service constructed with plugins that      *)
(* register raw mutators and middleware factories, its init, and then any  *)
(* calls of addDevServerMiddleware, getWebpackConfig and the before hook.   *)

\* plugins given to the constructor: one registering a chain mutator, one
\* for each raw mutator, one registering a middleware factory
ConfigSpecifiers ==
    {ObjectSpecifier("base", TRUE, "chain", "none"),
     ObjectSpecifier("m1", TRUE, "middleware", "none")}
        \cup {ObjectSpecifier(k, TRUE, k, "none") : k \in RawKinds}

ConfigPluginArgs ==
    {[isArray |-> TRUE, items |-> q] :
        q \in SeqsUpTo(ConfigSpecifiers, MaxCtorPlugins)}

\* the project options run assigns: with or without devServer options and
\* the configWebpack function
DevOptionInputs ==
    {EmptyMap,
     [devServer |-> [port |-> 9000]],
     [devServer |-> [port |-> 8888, proxy |-> [api |-> "a"]]],
     [devServer |-> [port |-> 9000, before |-> Hook("projectBefore")],
      configWebpack |-> "projectRaw"]}

InitConfig ==
    /\ \E arg \in ConfigPluginArgs :
           /\ plugins = resolvePlugins(arg, FALSE)
           /\ ctorArgs = [plugins |-> arg, useBuiltInPlugin |-> FALSE]
    /\ \E config \in DevOptionInputs :
           projectOptions = [set |-> TRUE, config |-> config, ref |-> "own"]
    /\ devServerMiddlewares = <<>>
    /\ handed = NoHook
    /\ mergeRule \in MergeRules
    /\ processEnv = EmptyMap
    /\ envFiles = NoEnvFiles
    /\ run = NoRun
    /\ jobs = <<>>
    /\ initialized = FALSE
    /\ mode = "undefined"
    /\ initProjectOptions = EmptyMap
    /\ defaultConfig = EmptyMap
    /\ configFile = NoFile
    /\ webpackChainFns = <<>>
    /\ webpackRawConfigFns = <<>>
    /\ registeredCommands = EmptyMap
    /\ registeredCommandFlags = EmptyMap
    /\ registeredCommandHandlers = EmptyMap
    /\ pc = "idle"
    /\ initIdx = 0
    /\ initLen = 0
    /\ initDone = FALSE
    /\ applyLog = <<>>
    /\ addCalls = 0
    /\ flagLog = EmptyMap
    /\ commandLog = EmptyMap
    /\ last = NoCall

DoAddDevServerMiddleware ==
    \E middlewareFactory \in MiddlewareInputs :
        addDevServerMiddleware(middlewareFactory)

NextConfig ==
    \/ DoInitStart
    \/ initPlugin
    \/ initFinish
    \/ DoAddDevServerMiddleware
    \/ getWebpackConfig
    \/ invokeBefore

SpecConfig == InitConfig /\ [][NextConfig]_vars

-----------------------------------------------------------------------------
(* One run of a constructed service: commands are registered, then run is   *)
(* called once, for any config file, env file and arguments.               *)

\* the constructor's plugins of a run: none, one that loads, one that does not
RunPluginArgs ==
    {[isArray |-> TRUE, items |-> q] :
        q \in SeqsUpTo({StringSpecifier("named", "none"),
                        StringSpecifier("missing", "none")}, 1)}

\* what the config file of a run exports: options without and with plugins
RunConfigInputs ==
    {[outputDir |-> Str_out],
     [outputDir |-> Str_out, plugins |-> <<StringSpecifier("good", "none")>>]}

RunFileInputs ==
    {NoFile} \cup
    {[exists |-> TRUE, valid |-> v, config |-> c] :
        v \in BOOLEAN, c \in RunConfigInputs}

RunEnvFileInputs ==
    {NoEnvFiles,
     [exists |-> TRUE, env |-> [FOO |-> "file"], local |-> NoEnvFiles.local]}

\* argv of run: mode, watch and noProgress
ArgvInputs ==
    {[mode |-> m, watch |-> w, noProgress |-> n] :
        m \in {"undefined", "development"}, w \in BOOLEAN, n \in BOOLEAN}

\* the constructor's projectOptions of a run
RunInitInputs == {EmptyMap, [publicPath |-> Str_c]}

InitRun ==
    /\ \E arg \in RunPluginArgs :
           /\ plugins = resolvePlugins(arg, FALSE)
           /\ ctorArgs = [plugins |-> arg, useBuiltInPlugin |-> FALSE]
    /\ configFile \in RunFileInputs
    /\ envFiles \in RunEnvFileInputs
    /\ processEnv = EmptyMap
    /\ devServerMiddlewares = <<>>
    /\ handed = NoHook
    /\ mergeRule = [arrays |-> "concat", functions |-> "compose"]
    /\ run = NoRun
    /\ jobs = <<>>
    /\ initialized = FALSE
    /\ mode = "undefined"
    /\ initProjectOptions \in RunInitInputs
    /\ projectOptions = NoOptions
    /\ defaultConfig = EmptyMap
    /\ webpackChainFns = <<>>
    /\ webpackRawConfigFns = <<>>
    /\ registeredCommands = EmptyMap
    /\ registeredCommandFlags = EmptyMap
    /\ registeredCommandHandlers = EmptyMap
    /\ pc = "idle"
    /\ initIdx = 0
    /\ initLen = 0
    /\ initDone = FALSE
    /\ applyLog = <<>>
    /\ addCalls = 0
    /\ flagLog = EmptyMap
    /\ commandLog = EmptyMap
    /\ last = NoCall

\* a plugin another callback adds while run waits
LatePlugin == ObjectSpecifier("late", TRUE, "chain", "none")

\* registerCommand, called before run is or by another callback while run
\* waits at line 460
RegisterOutsideRun == run.pc \in {"idle", "assign"} /\ DoRegisterCommand

\* addPlugin, called by another callback while run waits at line 460
AddPluginOutsideRun == run.pc = "assign" /\ addPlugin(LatePlugin)

\* loadProjectOptions, called by another callback while run waits at line
\* 460 or once run has ended
LoadOutsideRun == run.pc \in {"assign", "done"} /\ loadProjectOptions

DoRunStart == \E cmd \in RunInputs, argv \in ArgvInputs : runStart(cmd, argv)

NextRun ==
    \/ RegisterOutsideRun
    \/ AddPluginOutsideRun
    \/ LoadOutsideRun
    \/ loadProjectOptionsResumed
    \/ loadProjectOptionsThen
    \/ DoRunStart
    \/ runLoadProjectOptions
    \/ runRejected
    \/ runAssign
    \/ runAddPlugin
    \/ runAddProgress
    \/ runInit
    \/ initPlugin
    \/ initFinish
    \/ runInitReturned
    \/ runRunCommand

SpecRun == InitRun /\ [][NextRun]_vars

-----------------------------------------------------------------------------
(* The environment on its own: loadEnv on a constructed service, for any   *)
(* process environment and any env files.                                  *)

\* process.env before the first call
ProcessEnvInputs ==
    {ObjectAssign(n, f) :
        n \in {EmptyMap, [NODE_ENV |-> ""], [NODE_ENV |-> "test"]},
        f \in {EmptyMap, [FOO |-> "shell"]}}

\* what dotenv parses from the env file and from its .local file
EnvFileContents ==
    {EmptyMap, [FOO |-> "file"],
     [FOO |-> "file", BAR |-> "file", NODE_ENV |-> "staging"]}

LocalFileContents == {[FOO |-> "local"], [BAR |-> "local", NODE_ENV |-> ""]}

EnvFileInputs ==
    {NoEnvFiles} \cup
    {[exists |-> TRUE, env |-> e, local |-> l] :
        e \in EnvFileContents,
        l \in {NoEnvFiles.local} \cup
              {[exists |-> TRUE, env |-> c] : c \in LocalFileContents}}

\* the mode argument: none, or a mode
EnvModes == {"undefined"} \cup Modes

InitEnv ==
    /\ processEnv \in ProcessEnvInputs
    /\ envFiles \in EnvFileInputs
    /\ ctorArgs = NoCtorArgs
    /\ devServerMiddlewares = <<>>
    /\ handed = NoHook
    /\ mergeRule = [arrays |-> "concat", functions |-> "compose"]
    /\ run = NoRun
    /\ jobs = <<>>
    /\ plugins = <<>>
    /\ initialized = FALSE
    /\ mode = "undefined"
    /\ initProjectOptions = EmptyMap
    /\ projectOptions = NoOptions
    /\ defaultConfig = EmptyMap
    /\ configFile = NoFile
    /\ webpackChainFns = <<>>
    /\ webpackRawConfigFns = <<>>
    /\ registeredCommands = EmptyMap
    /\ registeredCommandFlags = EmptyMap
    /\ registeredCommandHandlers = EmptyMap
    /\ pc = "idle"
    /\ initIdx = 0
    /\ initLen = 0
    /\ initDone = FALSE
    /\ applyLog = <<>>
    /\ addCalls = 0
    /\ flagLog = EmptyMap
    /\ commandLog = EmptyMap
    /\ last = NoCall

DoLoadEnv == \E m \in EnvModes : loadEnv(m)

NextEnv == DoLoadEnv

SpecEnv == InitEnv /\ [][NextEnv]_vars

-----------------------------------------------------------------------------
(* Claims about the command registries, checked under SpecCommands *)

\* the pre-handlers a registerCommandFlag log registered, in call order
LoggedHandlers(log) == [i \in 1..Len(log) |-> log[i].handler]

\* the right-biased union of the flag objects of a registerCommandFlag log
LoggedFlags(log) ==
    [k \in UNION {DOMAIN log[i].flag : i \in 1..Len(log)} |->
        log[Max({i \in 1..Len(log) : k \in DOMAIN log[i].flag})].flag[k]]

\* the calls a dispatch has to make: the pre-handlers hs in order up to the
\* first that returns false, and then own unless one returned false
ExpectedCalls(hs, own) ==
    LET veto == {i \in 1..Len(hs) : PreHandlerReturn(hs[i]) = "false"}
    IN  IF veto = {} THEN hs \o <<own>> ELSE SubSeq(hs, 1, Min(veto))

Dispatched == last.op = "runCommand" /\ last.cmd \in DOMAIN registeredCommands

\* C1: dispatching a command calls its pre-handlers in registration order
\* before the command's own handler; after a pre-handler that returns
\* exactly false nothing more is called; if none returns false (undefined
\* and true included) the own handler is called once, after the last
\* pre-handler.
C1_PreHandlersThenHandler ==
    Dispatched =>
        last.calls =
            ExpectedCalls(MapGetOr(registeredCommandHandlers, last.cmd, <<>>),
                          registeredCommands[last.cmd].handler)

\* a dispatch in which a pre-handler returning undefined ran, the next one
\* returned false, and neither a later pre-handler nor the own handler ran
C1_Witness ==
    /\ Dispatched
    /\ LET hs == MapGetOr(registeredCommandHandlers, last.cmd, <<>>)
       IN  /\ Len(hs) >= 2
           /\ hs[1] = "pUndefined" /\ hs[2] = "pFalse"
           /\ last.calls = <<"pUndefined", "pFalse">>

\* C2 as claimed: the builder handed to the parser has every key of the
\* aggregated flags and of the descriptor's builder, and on a key of both
\* the aggregated value.
C2_AggregatedFlagsWin ==
    Dispatched =>
        LET agg == LoggedFlags(MapGetOr(flagLog, last.cmd, <<>>))
            own == registeredCommands[last.cmd].builder
        IN  /\ (DOMAIN agg) \cup (DOMAIN own) \subseteq DOMAIN last.builder
            /\ \A k \in (DOMAIN agg) \cap (DOMAIN own) : last.builder[k] = agg[k]

\* C2 as amended: the builder handed to the parser has every key of the
\* flags registered through registerCommandFlag and of the descriptor's
\* builder, and on a key of both the descriptor's value.
C2_DescriptorFlagsWin ==
    Dispatched =>
        LET agg == LoggedFlags(MapGetOr(flagLog, last.cmd, <<>>))
            own == registeredCommands[last.cmd].builder
        IN  /\ (DOMAIN agg) \cup (DOMAIN own) \subseteq DOMAIN last.builder
            /\ \A k \in (DOMAIN agg) \cap (DOMAIN own) : last.builder[k] = own[k]

\* a dispatch where the aggregated flags and the descriptor's builder give
\* the same flag different specs
C2_Witness ==
    /\ Dispatched
    /\ LET agg == LoggedFlags(MapGetOr(flagLog, last.cmd, <<>>))
           own == registeredCommands[last.cmd].builder
       IN  \E k \in (DOMAIN agg) \cap (DOMAIN own) :
               agg[k] # own[k] /\ last.builder[k] = own[k]

\* C9: whatever the interleaving of registerCommand and registerCommandFlag
\* on a key, a dispatch calls the pre-handlers ever registered for the key in
\* registration order (up to the first that returns false, see C1) and then
\* only the handler of the descriptor registered last; registerCommand leaves
\* the aggregated flags and the pre-handlers as they are.
C9_Dispatch ==
    Dispatched =>
        last.calls =
            ExpectedCalls(LoggedHandlers(MapGetOr(flagLog, last.cmd, <<>>)),
                          commandLog[last.cmd].descriptor.handler)

C9_RegisterCommandKeeps ==
    last'.op = "registerCommand" =>
        UNCHANGED <<registeredCommandFlags, registeredCommandHandlers>>

\* C9: both parts, the dispatch after any interleaving and the step of
\* registerCommand that keeps the aggregated flags and pre-handlers.
C9_ReRegistration == []C9_Dispatch /\ [][C9_RegisterCommandKeeps]_vars

\* a dispatch of a command that was registered again, with all of its two
\* or more pre-handlers called before the handler registered last
C9_Witness ==
    /\ Dispatched
    /\ commandLog[last.cmd].replaced
    /\ Len(MapGetOr(flagLog, last.cmd, <<>>)) >= 2
    /\ Len(last.calls) = Len(flagLog[last.cmd]) + 1
    /\ last.calls[Len(last.calls)] = commandLog[last.cmd].descriptor.handler

\* C10: runCommand of a name without a descriptor returns without throwing,
\* hands nothing to the parser, parses nothing, calls no pre-handler and no
\* handler, and leaves the three registries unchanged.
C10_UnknownCommandStep ==
    (last'.op = "runCommand" /\ last'.cmd \notin DOMAIN registeredCommands) =>
        /\ UNCHANGED <<registeredCommands, registeredCommandFlags,
                       registeredCommandHandlers>>
        /\ ~last'.threw /\ ~last'.registered /\ ~last'.parsed
        /\ last'.calls = <<>>

\* C10: every step that is a runCommand of a name without a descriptor is
\* such a step.
C10_UnknownCommand == [][C10_UnknownCommandStep]_vars

\* runCommand of a name that has pre-handlers but no descriptor
C10_Witness ==
    /\ last.op = "runCommand"
    /\ last.cmd \notin DOMAIN registeredCommands
    /\ last.cmd \in DOMAIN registeredCommandHandlers
    /\ last.calls = <<>>

-----------------------------------------------------------------------------
(* Claims about the plugin list, init and the getters, checked under Spec *)

\* how many times the apply of this.plugins[i] was invoked
ApplyCount(i) == Cardinality({k \in 1..Len(applyLog) : applyLog[k] = i})

\* a first init() call has returned (without throwing)
InitReturned ==
    pc = "idle" /\ last.op = "init" /\ ~last.again /\ ~last.threw

\* C4 as claimed: when init returns, every element of the plugin list
\* (built-in, given to the constructor, added by addPlugin before init, or
\* added through the api by a plugin's apply during init) has had its apply
\* invoked exactly once.
C4_EveryPluginAppliedOnce ==
    InitReturned => \A i \in 1..Len(plugins) : ApplyCount(i) = 1

\* C5 as claimed: plugins that fail to load are omitted from the plugin list
\* (every element is a loaded plugin), and an init under assigned project
\* options applies every loaded plugin and returns without raising.
C5_FailedLoadsOmitted ==
    (pc = "idle" /\ last.op = "init" /\ ~last.again /\ projectOptions.set) =>
        /\ \A i \in 1..Len(plugins) : plugins[i].loaded
        /\ ~last.threw
        /\ \A i \in 1..Len(plugins) : plugins[i].loaded => ApplyCount(i) >= 1

\* what is left unchanged by an init() call on an initialized service
C6_Observable ==
    <<plugins, initialized, mode, projectOptions, webpackChainFns,
      webpackRawConfigFns, registeredCommands, registeredCommandFlags,
      registeredCommandHandlers, applyLog, initDone>>

\* C6: once an init() has completed, a further init() call, with any mode
\* and whatever was done to the project options or the plugin list since,
\* invokes no apply, appends no chain or raw mutator, leaves the mode and the
\* registries unchanged and returns.
C6_InitAgainStep ==
    (initDone /\ pc = "idle" /\ last'.op = "init") =>
        /\ UNCHANGED C6_Observable
        /\ pc' = "idle"
        /\ ~last'.threw

\* C6: every init() call made after an init() has completed is such a step.
C6_InitIdempotent == [][C6_InitAgainStep]_vars

\* a second init() with another mode, on a service whose plugin list has
\* grown since the first one: the mode is the first one's and the new plugin
\* was not applied
C6_Witness ==
    /\ initDone /\ pc = "idle"
    /\ last.op = "init" /\ last.again
    /\ last.mode # mode
    /\ \E i \in 1..Len(plugins) : ApplyCount(i) = 0
    /\ \A i \in 1..Len(plugins) : ApplyCount(i) <= 1

\* C7 as claimed: getWebpackConfig throws when called before an init() has
\* completed, and a configuration it returns has the project-level
\* chainWebpack and configWebpack mutators applied when the project options
\* have them.
C7_ThrowsBeforeInitCompleted ==
    (last.op = "getWebpackConfig" /\ ~last.threw) =>
        /\ last.complete
        /\ "chainWebpack" \in DOMAIN projectOptions.config =>
               \E k \in 1..Len(last.config.chain) :
                   last.config.chain[k] = projectOptions.config.chainWebpack

\* C8 as claimed: getWebpackChainConfig called on a service that is not
\* initialized throws and returns no builder.
C8_ChainConfigThrowsBeforeInit ==
    (last.op = "getWebpackChainConfig" /\ ~initialized) => last.threw

-----------------------------------------------------------------------------
(* Claims about the project options, checked under SpecOptions *)

\* the normalization lines 360-367 apply to the value of option k
Normalized(k, v) ==
    IF k = "publicPath" THEN StripDotSlash(ensureSlash(v))
    ELSE IF k = "outputDir" THEN removeSlash(v)
    ELSE v

\* the value of the first of the objects first, second, third that has key k
FirstOf(k, first, second, third) ==
    IF k \in DOMAIN first THEN first[k]
    ELSE IF k \in DOMAIN second THEN second[k]
    ELSE third[k]

\* options is, key by key, the value of the first of first, second, third
\* that sets the key, normalized; for devServer, sub-key by sub-key
FollowsPrecedence(options, first, second, third) ==
    /\ DOMAIN options = (DOMAIN first) \cup (DOMAIN second) \cup (DOMAIN third)
    /\ \A k \in (DOMAIN options) \ NestedKeys :
           options[k] = Normalized(k, FirstOf(k, first, second, third))
    /\ \A k \in (DOMAIN options) \cap NestedKeys :
           LET a == IF k \in DOMAIN first THEN first[k] ELSE EmptyMap
               b == IF k \in DOMAIN second THEN second[k] ELSE EmptyMap
               c == IF k \in DOMAIN third THEN third[k] ELSE EmptyMap
           IN  /\ DOMAIN options[k] = (DOMAIN a) \cup (DOMAIN b) \cup (DOMAIN c)
               /\ \A j \in DOMAIN options[k] : options[k][j] = FirstOf(j, a, b, c)

Loaded == last.op = "loadProjectOptions" /\ ~last.threw

\* C3 as claimed: the options loadProjectOptions returns take each key from
\* the constructor's projectOptions if it sets the key, else from the config
\* file, else from the defaults.
C3_ConstructorOverFile ==
    Loaded =>
        FollowsPrecedence(last.options, last.given.init,
                          last.given.file.config, defaultConfig)

-----------------------------------------------------------------------------
(* Claims about the order of the plugin list, checked under Spec *)

IsPrefixOf(a, b) == Len(a) <= Len(b) /\ SubSeq(b, 1, Len(a)) = a

\* the constructor's plugins, as resolvePlugins reads them: nothing unless
\* the argument is an array
GivenPlugins == IF ctorArgs.plugins.isArray THEN ctorArgs.plugins.items ELSE <<>>

C15_Order ==
    LET nb == IF ctorArgs.useBuiltInPlugin THEN 5 ELSE 0
    IN  /\ Len(plugins) >= nb + Len(GivenPlugins)
        /\ ctorArgs.useBuiltInPlugin =>
               [i \in 1..5 |-> plugins[i].id] =
                   <<"base", "css", "app", "optimization", "babel">>
        /\ \A i \in 1..Len(GivenPlugins) :
               plugins[nb + i] = LoadPlugin(GivenPlugins[i])

C15_AppendOnly ==
    /\ IsPrefixOf(plugins, plugins')
    /\ Len(plugins') <= Len(plugins) + 1

\* C15: the plugin list is the built-in plugins base, css, app,
\* optimization, babel when they are enabled, then the constructor's plugins
\* in input order, then what addPlugin appended; every step keeps the list
\* as a prefix of the next list, so nothing is reordered or removed.
C15_PluginOrder == []C15_Order /\ [][C15_AppendOnly]_vars

\* built-in plugins, constructor plugins and an appended plugin together
C15_Witness ==
    /\ ctorArgs.useBuiltInPlugin
    /\ Len(GivenPlugins) = 2
    /\ Len(plugins) > 5 + Len(GivenPlugins)
    /\ C15_Order

-----------------------------------------------------------------------------
(* Claims about the api of a plugin, checked under Spec *)

\* the service and the collections it owns
Internals ==
    {"this", "plugins", "registeredCommands", "registeredCommandFlags",
     "registeredCommandHandlers", "webpackChainFns", "webpackRawConfigFns",
     "devServerMiddlewares"}

\* C18: what a call made through the api of a plugin returned is neither
\* the service nor one of its collections.
C18_ApiKeepsInternals == last.viaApi => last.returned \notin Internals

-----------------------------------------------------------------------------
(* Claims about the aggregated flags, checked under SpecRegister *)

\* C19: after any registerCommandFlag calls, a key's aggregated flag map
\* has every flag name registered for the key, each with the spec of the
\* most recent registration of that name; the key is the normalized name.
C19_FlagUnion ==
    /\ DOMAIN registeredCommandFlags = DOMAIN flagLog
    /\ DOMAIN flagLog \subseteq {Serve}
    /\ \A k \in DOMAIN flagLog :
           registeredCommandFlags[k] = LoggedFlags(flagLog[k])

\* one flag name registered twice with different specs for a key that also
\* has a descriptor
C19_Witness ==
    /\ Serve \in DOMAIN flagLog
    /\ Serve \in DOMAIN registeredCommands
    /\ Len(flagLog[Serve]) = 2
    /\ flagLog[Serve][1].flag = [port |-> "number"]
    /\ flagLog[Serve][2].flag = [port |-> "string"]
    /\ registeredCommandFlags[Serve] = [port |-> "string"]

-----------------------------------------------------------------------------
(* Claims about the normalized paths, checked under SpecOptions *)

\* the value loadProjectOptions normalizes for key k: the file's, else the
\* constructor's, else the default
GivenOption(k) ==
    FirstOf(k, last.given.file.config, last.given.init, defaultConfig)

EndsWithSlash(s) == s # <<>> /\ s[Len(s)] = "/"

BeginsWithSlash(s) == s # <<>> /\ s[1] = "/"

\* C20 as claimed: a non-empty publicPath that is not an http(s) URL comes
\* out beginning and ending with "/", and outputDir never comes out ending
\* with "/".
C20_SlashesEverywhere ==
    Loaded =>
        /\ (GivenOption("publicPath") # <<>> /\ ~IsHttp(GivenOption("publicPath")))
               => /\ BeginsWithSlash(last.options.publicPath)
                  /\ EndsWithSlash(last.options.publicPath)
        /\ ~EndsWithSlash(last.options.outputDir)

\* C20 as amended: a non-empty publicPath that is not an http(s) URL and
\* does not begin with "." comes out beginning and ending with "/"; one that
\* begins with "." gets the trailing "/" only and then loses a leading "./";
\* outputDir comes out without its last character when that was "/", so it
\* ends with "/" only when the given value ended with "//".
C20_SlashesUnlessDotted ==
    Loaded =>
        LET given == GivenOption("publicPath")
            dir == GivenOption("outputDir")
            out == last.options.publicPath
            closed == IF EndsWithSlash(given) THEN given ELSE given \o <<"/">>
        IN  /\ (given # <<>> /\ ~IsHttp(given) /\ given[1] # ".")
                   => BeginsWithSlash(out) /\ EndsWithSlash(out)
            /\ (given # <<>> /\ given[1] = ".")
                   => out = IF Len(closed) >= 2 /\ closed[2] = "/"
                            THEN SubSeq(closed, 3, Len(closed)) ELSE closed
            /\ last.options.outputDir =
                   IF EndsWithSlash(dir) THEN SubSeq(dir, 1, Len(dir) - 1) ELSE dir
            /\ EndsWithSlash(last.options.outputDir) =>
                   Len(dir) >= 2 /\ dir[Len(dir) - 1] = "/" /\ dir[Len(dir)] = "/"

\* the dotted and the doubled case: "./c" came out as "c/" and "o//" as "o/"
C20_Witness ==
    /\ Loaded
    /\ GivenOption("publicPath") = Str_c
    /\ last.options.publicPath = <<"c", "/">>
    /\ GivenOption("outputDir") = Str_deep
    /\ last.options.outputDir = <<"o", "/">>

-----------------------------------------------------------------------------
(* Claims about the environment, checked under SpecEnv *)

EnvLoaded == last.op = "loadEnv"

\* the value the env files give key k: the .local file's if it has the key
FileValue(k) ==
    IF envFiles.local.exists /\ k \in DOMAIN envFiles.local.env
    THEN envFiles.local.env[k] ELSE envFiles.env[k]

FileKeys ==
    IF ~envFiles.exists THEN {}
    ELSE (DOMAIN envFiles.env) \cup
         (IF envFiles.local.exists THEN DOMAIN envFiles.local.env ELSE {})

\* C16 as claimed: a variable that was in the environment before loadEnv
\* has the same value after it, whatever the value; a variable that was
\* added and is set by the env files has the value of the .local file when
\* that file sets it.
C16_ExistingNeverChanged ==
    EnvLoaded =>
        /\ \A k \in DOMAIN last.env :
               k \in DOMAIN processEnv /\ processEnv[k] = last.env[k]
        /\ \A k \in (DOMAIN processEnv) \ (DOMAIN last.env) :
               k \in FileKeys => processEnv[k] = FileValue(k)

\* the mode's default, which replaces an empty NODE_ENV or BABEL_ENV
ModeDefault == IF last.mode = "production" THEN "production" ELSE "development"

Defaulted(k, before) ==
    /\ k \in {"NODE_ENV", "BABEL_ENV"}
    /\ before = ""
    /\ envFiles.exists
    /\ last.mode # "undefined"
    /\ processEnv[k] = ModeDefault

\* C16 as amended: a variable that was in the environment before loadEnv
\* keeps its value, and an added variable that the env files set has the
\* value of the .local file when that file sets it, except that NODE_ENV
\* and BABEL_ENV, when their value would be empty, get the mode's default
\* (if a mode is given and the env file exists); nothing else is added.
C16_ExistingKeptUnlessEmpty ==
    EnvLoaded =>
        /\ \A k \in DOMAIN last.env :
               /\ k \in DOMAIN processEnv
               /\ processEnv[k] = last.env[k] \/ Defaulted(k, last.env[k])
        /\ \A k \in (DOMAIN processEnv) \ (DOMAIN last.env) :
               IF k \in FileKeys
               THEN processEnv[k] = FileValue(k) \/ Defaulted(k, FileValue(k))
               ELSE /\ k \in {"NODE_ENV", "BABEL_ENV"}
                    /\ envFiles.exists /\ last.mode # "undefined"
                    /\ processEnv[k] = ModeDefault

\* a call that kept a shell variable the files also set, added one with the
\* .local value, and replaced an empty NODE_ENV
C16_Witness ==
    /\ EnvLoaded
    /\ last.env = [NODE_ENV |-> "", FOO |-> "shell"]
    /\ envFiles.exists /\ envFiles.local.exists
    /\ "BAR" \in DOMAIN envFiles.env
    /\ processEnv.FOO = "shell"
    /\ processEnv.BAR = "local"
    /\ processEnv.NODE_ENV = "production"

-----------------------------------------------------------------------------
(* Claims about the webpack configuration, checked under SpecConfig *)

ConfigReturned == last.op = "getWebpackConfig" /\ ~last.threw

\* the fragment the i-th raw mutator of a call contributed: nothing for a
\* function that returned nothing
Fragment(raw, i) ==
    IF RawMutator(raw[i]).returns THEN RawMutator(raw[i]).result ELSE EmptyMap

\* the raw mutators of a call whose fragment sets key k
Setters(raw, k) == {i \in 1..Len(raw) : k \in DOMAIN Fragment(raw, i)}

\* the raw mutators of a call whose fragment sets key j of the object at k
SubSetters(raw, k, j) == {i \in Setters(raw, k) : j \in DOMAIN Fragment(raw, i)[k]}

\* x ends with the elements of y
EndsWith(x, y) ==
    Len(x) >= Len(y) /\ SubSeq(x, Len(x) - Len(y) + 1, Len(x)) = y

\* the names of the before hooks that the first i fragments give the object
\* at key k, in registration order
RECURSIVE BeforeNames(_, _, _)
BeforeNames(raw, k, i) ==
    IF i = 0 THEN <<>>
    ELSE BeforeNames(raw, k, i - 1)
             \o (IF i \in SubSetters(raw, k, "before")
                 THEN <<Fragment(raw, i)[k].before.inner>> ELSE <<>>)

\* the name of the function composed of the functions named, in order
RECURSIVE Joined(_)
Joined(names) ==
    IF Len(names) = 1 THEN names[1]
    ELSE Joined(SubSeq(names, 1, Len(names) - 1)) \o "+" \o names[Len(names)]

\* C12 as claimed: in the configuration after the raw mutators, every key
\* of the fragment applied last has that fragment's value, and every other
\* key of the fragment applied before it has that fragment's value.
C12_LastFragmentReplaces ==
    ConfigReturned =>
        LET raw == last.config.raw
            given == {i \in 1..Len(raw) : RawMutator(raw[i]).returns}
        IN  given # {} =>
                LET b == Max(given)
                    B == Fragment(raw, b)
                IN  /\ \A k \in DOMAIN B : last.config.merged[k] = B[k]
                    /\ \A a \in given :
                           (a < b /\ \A i \in given : i <= a \/ i >= b) =>
                               \A k \in (DOMAIN Fragment(raw, a)) \ (DOMAIN B) :
                                   last.config.merged[k] = Fragment(raw, a)[k]

\* C12 as amended: the configuration after the raw mutators has the keys of
\* the base and of every fragment.  For each key, with B the fragment
\* applied last among those that set it: a string, number or boolean is
\* B's; an array ends with B's elements; an object has the entries of the
\* fragments that set it, each entry under the same rule; a function is B's
\* or the function composed of all those given for the key, B's last.  A
\* key that no fragment sets has the base's value, so a function that
\* returned nothing changes nothing.
C12_MergedInOrder ==
    ConfigReturned =>
        LET raw == last.config.raw
            base == ToConfig(last.config.chain)
            merged == last.config.merged
        IN  /\ DOMAIN merged =
                   (DOMAIN base) \cup UNION {DOMAIN Fragment(raw, i) : i \in 1..Len(raw)}
            /\ \A k \in DOMAIN merged :
                   IF Setters(raw, k) = {} THEN merged[k] = base[k]
                   ELSE IF k \in ArrayKeys
                   THEN EndsWith(merged[k], Fragment(raw, Max(Setters(raw, k)))[k])
                   ELSE IF k \in NestedKeys
                   THEN /\ DOMAIN merged[k] =
                               UNION {DOMAIN Fragment(raw, i)[k] : i \in Setters(raw, k)}
                        /\ \A j \in DOMAIN merged[k] :
                               IF j = "before"
                               THEN LET names == BeforeNames(raw, k, Len(raw))
                                    IN  \/ merged[k][j] = Hook(names[Len(names)])
                                        \/ merged[k][j] = Hook(Joined(names))
                               ELSE merged[k][j] =
                                        Fragment(raw, Max(SubSetters(raw, k, j)))[k][j]
                   ELSE merged[k] = Fragment(raw, Max(Setters(raw, k)))[k]

\* fragment A, then a function returning a fragment: its mode was added, A's
\* devtool, port and host were kept, the array ends with the function's
\* plugins, and the before hook is the function's or composed of both
C12_Witness ==
    /\ ConfigReturned
    /\ last.config.raw = <<"fragA", "fnB">>
    /\ last.config.merged.mode = "development"
    /\ last.config.merged.devtool = "source-map"
    /\ last.config.merged.plugins = <<"pA", "pF", "pG">>
    /\ last.config.merged.devServer.port = 8001
    /\ last.config.merged.devServer.host = "a"
    /\ last.config.merged.devServer.before = Hook("hookA+hookF")

\* the devServer objects of a returned configuration: after the raw
\* mutators, of the project options, and as returned
BuiltDevServer == MapGetOr(last.config.merged, "devServer", EmptyMap)

ProjectDevServer == MapGetOr(projectOptions.config, "devServer", EmptyMap)

ReturnedDevServer == last.config.value.devServer

\* the before hook is compared by the user's function in it
SameEntry(j, x, y) == IF j = "before" THEN x.inner = y.inner ELSE x = y

\* C13 as claimed: every devServer key the built configuration sets keeps
\* its value in the returned configuration.
C13_BuiltDevServerKept ==
    ConfigReturned =>
        \A j \in DOMAIN BuiltDevServer :
            SameEntry(j, ReturnedDevServer[j], BuiltDevServer[j])

\* the entries of the object returned at a key that the built configuration
\* and the project options both give an object: those of both, the
\* project's value where it has the entry, at every depth
RECURSIVE ProjectEntriesWin(_, _, _)
ProjectEntriesWin(returned, built, project) ==
    /\ DOMAIN returned = (DOMAIN built) \cup (DOMAIN project)
    /\ \A j \in DOMAIN project :
           IF j \in NestedKeys /\ j \in DOMAIN built
           THEN ProjectEntriesWin(returned[j], built[j], project[j])
           ELSE returned[j] = project[j]
    /\ \A j \in (DOMAIN built) \ (DOMAIN project) : returned[j] = built[j]

\* C13 as amended: every devServer key the project options set has the
\* project's value in the returned configuration (two objects merged entry
\* by entry, the project's entries winning), and a key only the built
\* configuration sets keeps its value.
C13_ProjectDevServerWins ==
    ConfigReturned =>
        /\ DOMAIN ReturnedDevServer =
               (DOMAIN BuiltDevServer) \cup (DOMAIN ProjectDevServer) \cup {"before"}
        /\ \A j \in DOMAIN ProjectDevServer :
               IF j \in NestedKeys /\ j \in DOMAIN BuiltDevServer
               THEN ProjectEntriesWin(ReturnedDevServer[j], BuiltDevServer[j],
                                      ProjectDevServer[j])
               ELSE SameEntry(j, ReturnedDevServer[j], ProjectDevServer[j])
        /\ \A j \in (DOMAIN BuiltDevServer) \ (DOMAIN ProjectDevServer) :
               SameEntry(j, ReturnedDevServer[j], BuiltDevServer[j])

\* the built configuration and the project options both set port
C13_Witness ==
    /\ ConfigReturned
    /\ "port" \in DOMAIN BuiltDevServer
    /\ BuiltDevServer.port = 8001
    /\ ProjectDevServer = [port |-> 9000]
    /\ ReturnedDevServer.port = 9000
    /\ ReturnedDevServer.host = "a"
    /\ ReturnedDevServer.before.inner = "hookA"

\* the before hook that exists before line 536: the project's, else the
\* built configuration's, else none
ExistingBefore ==
    IF "before" \in DOMAIN ProjectDevServer THEN ProjectDevServer.before.inner
    ELSE IF "before" \in DOMAIN BuiltDevServer THEN BuiltDevServer.before.inner
    ELSE "undefined"

\* C14: the before hook of a returned configuration is a wrapper around the
\* existing hook if a middleware factory is registered and is the existing
\* hook otherwise; a call of the wrapper calls every registered factory in
\* registration order and then the existing hook, once, if there is one.
C14_MiddlewaresBeforeHook ==
    /\ ConfigReturned =>
           /\ ReturnedDevServer.before.inner = ExistingBefore
           /\ ReturnedDevServer.before.wrapped = (Len(devServerMiddlewares) > 0)
    /\ last.op = "before" =>
           LET n == Len(devServerMiddlewares)
           IN  IF handed.wrapped
               THEN /\ Len(last.calls) >= n
                    /\ SubSeq(last.calls, 1, n) = devServerMiddlewares
                    /\ IF handed.inner = "undefined"
                       THEN Len(last.calls) = n
                       ELSE last.calls = Append(devServerMiddlewares, handed.inner)
               ELSE last.calls = <<handed.inner>>

\* a wrapper called with two factories registered, around the project's hook
C14_Witness ==
    /\ last.op = "before"
    /\ handed = [wrapped |-> TRUE, inner |-> "projectBefore"]
    /\ last.calls = <<"m1", "m2", "projectBefore">>

-----------------------------------------------------------------------------
(* run *)

\* the config file of the run exists and validateOptions rejects its export
RunConfigRejected == configFile.exists /\ ~configFile.valid

\* the plugin list as the constructor left it
ConstructedPlugins == resolvePlugins(ctorArgs.plugins, ctorArgs.useBuiltInPlugin)

\* the plugin list is the constructor's, then plugins that callbacks added
\* while run waited
OnlyLateAdded ==
    /\ Len(plugins) = Len(ConstructedPlugins) + addCalls
    /\ SubSeq(plugins, 1, Len(ConstructedPlugins)) = ConstructedPlugins
    /\ \A i \in (Len(ConstructedPlugins) + 1)..Len(plugins) :
           plugins[i] = LoadPlugin([LatePlugin EXCEPT !.options = "given"])

\* the rejection that run waits for is queued
RejectionQueued ==
    \E i \in 1..Len(jobs) : jobs[i] = ThenJob(TRUE, TRUE, "none")

\* C11: when the export of the config file fails schema validation, the
\* loadProjectOptions call of run throws, run is rejected with it and goes
\* no further: the options are not assigned, no plugin of the file and no
\* progress plugin is added, no plugin is initialised and no command is
\* dispatched.
C11_InvalidConfigAborts ==
    (RunConfigRejected /\ run.pc \notin {"idle", "loadProjectOptions"}) =>
        /\ \/ run.pc = "assign" /\ RejectionQueued
           \/ run.pc = "rejected"
        /\ run.log = <<"loadEnv", "loadProjectOptions">>
        /\ ~projectOptions.set
        /\ OnlyLateAdded
        /\ ~initialized
        /\ applyLog = <<>>
        /\ last.op # "runCommand"

\* a run of a registered command rejected for a config file that lists a
\* plugin
C11_Witness ==
    /\ run.pc = "rejected"
    /\ last.op = "run"
    /\ last.threw
    /\ RunConfigRejected
    /\ "plugins" \in DOMAIN configFile.config
    /\ run.cmd \in DOMAIN registeredCommands

\* the place of a statement of run in the order of the claim
RunRank(step) ==
    CASE step = "loadEnv" -> 1
      [] step = "loadProjectOptions" -> 2
      [] step = "projectOptions" -> 3
      [] step = "addPlugin" -> 4
      [] step = "progress" -> 5
      [] step = "init" -> 6
      [] step = "runCommand" -> 7

RunDid(step) == \E i \in 1..Len(run.log) : run.log[i] = step

\* C17: run loads the environment, then the project options, then adds the
\* plugins of the options and the progress plugin, then initialises, then
\* dispatches: each statement happens after all statements before it, init
\* starts with every plugin of the options in the list, and the command is
\* dispatched only once init has finished.
C17_RunOrder ==
    /\ \A i, j \in 1..Len(run.log) :
           i < j => /\ RunRank(run.log[i]) <= RunRank(run.log[j])
                    /\ RunRank(run.log[i]) = RunRank(run.log[j])
                           => run.log[i] = "addPlugin"
    /\ \A i \in 1..Len(run.log) :
           \A before \in {"loadEnv", "loadProjectOptions", "projectOptions"} :
               RunRank(before) < RunRank(run.log[i]) =>
                   \E k \in 1..(i - 1) : run.log[k] = before
    /\ RunDid("init") =>
           /\ projectOptions.set
           /\ run.todo = <<>>
           /\ run.noProgress = ~RunDid("progress")
           /\ Len(plugins) >= Len(ConstructedPlugins)
                  + Len(MapGetOr(projectOptions.config, "plugins", <<>>))
                  + (IF run.noProgress THEN 0 ELSE 1)
    /\ (initialized \/ applyLog # <<>>) => RunDid("init")
    /\ RunDid("runCommand") =>
           /\ RunDid("init")
           /\ initDone
           /\ pc = "idle"

\* a whole run: a plugin of the config file and the progress plugin were
\* added and applied, and the registered command was dispatched
C17_Witness ==
    /\ run.pc = "done"
    /\ run.log = <<"loadEnv", "loadProjectOptions", "projectOptions",
                   "addPlugin", "progress", "init", "runCommand">>
    /\ Len(applyLog) >= 2
    /\ last.op = "runCommand"
    /\ last.known

-----------------------------------------------------------------------------
(* Claims about the frame of runCommand, checked under SpecCommands *)

\* a step that dispatches a registered command
C22_DispatchStep ==
    (last'.op = "runCommand" /\ last'.cmd \in DOMAIN registeredCommands) =>
        /\ UNCHANGED <<registeredCommands, registeredCommandFlags,
                       registeredCommandHandlers>>
        /\ DOMAIN registeredCommandFlags' = DOMAIN flagLog'
        /\ \A k \in DOMAIN flagLog' :
               registeredCommandFlags'[k] = LoggedFlags(flagLog'[k])

\* C22: a runCommand of a registered command leaves the descriptors, the
\* pre-handler lists and the aggregated flag maps as they were: after it,
\* the flag map of every key holds exactly what the registerCommandFlag
\* calls for the key accumulated, and no key of the descriptor's builder.
C22_RunCommandKeepsRegistry == [][C22_DispatchStep]_vars

-----------------------------------------------------------------------------
(* Claims about the initialized flag, checked under Spec *)

\* the plugin at index i of the list had its apply called
C21_Applied(i) == \E j \in 1..Len(applyLog) : applyLog[j] = i

\* the mutator the project options hold under key, if any, is in fns
C21_Appended(key, fns) ==
    (projectOptions.set /\ key \in DOMAIN projectOptions.config) =>
        \E i \in 1..Len(fns) : fns[i] = projectOptions.config[key]

\* C21: outside a call of init, initialized is true only if an init call
\* ran to its end: every plugin of the list had its apply called and the
\* chainWebpack and configWebpack of the project options were appended.  An
\* init call that threw does not leave the service initialized.
C21_InitializedMeansComplete ==
    (pc = "idle" /\ initialized) =>
        /\ initDone
        /\ \A i \in 1..Len(plugins) : C21_Applied(i)
        /\ C21_Appended("chainWebpack", webpackChainFns)
        /\ C21_Appended("configWebpack", webpackRawConfigFns)

====
